---- MODULE Spec2Model ----
(***************************************************************************)
(* BodhiFlow two-phase pipeline: the PocketFlow runner, the three flow     *)
(* topologies of flow.py, and the two coordinators of nodes.py             *)
(* (process-pool acquisition, semaphore-gated asyncio refinement).         *)
(***************************************************************************)
EXTENDS Integers, Sequences, FiniteSets, TLC

(* ---------------------------- bounds ----------------------------------- *)
MaxJobs == 2        \* longest video_sources_queue the enumerator produces
MaxRequested == 2   \* largest user-requested max_workers_processes
MaxCap == 2         \* largest ASR max_concurrency a provider declares
MaxStyles == 2      \* most styles in selected_styles_data
MaxAsync == 2       \* largest max_workers_async
MaxBuildJobs == 2   \* longest expanded input list of a data-path run
MaxRows == 2        \* most rows of a batch CSV
MaxItems == 3       \* longest list handed to range slicing
MaxTextLen == 7     \* longest transcript text, in characters
MaxChunkSize == 2   \* largest llm_chunk_size, in words
MaxTitleLen == 3    \* longest of the short source titles, in characters

VARIABLES
    \* --- PocketFlowRunner / flow_params ---
    run_phase_1, run_phase_2,   \* shared["run_phase_1"], shared["run_phase_2"]
    requested_workers,          \* flow_params["max_workers_processes"]
    asr_cap,                    \* provider max_concurrency: {} is None, {n} is n
    max_workers_processes,      \* shared["max_workers_processes"]
    max_workers_async,          \* shared["max_workers_async"]
    selected_styles,            \* shared["selected_styles_data"] (style names)
    phase2_skip_existing,       \* shared["phase2_skip_existing"]
    phase2_max_concurrency,     \* max_concurrency the phase-2 model declares, {} if none
    stop_requested,             \* PocketFlowRunner._stop_requested
    runner_pc,                  \* "init" | "flow" | "done" | "error"
    \* --- Flow engine ---
    topology,                   \* "none" | "full" | "phase1" | "phase2"
    curr,                       \* node being run, "none" when no node
    step,                       \* "prep" | "exec" | "post" of curr
    trace,                      \* stages whose prep has begun, in order
    prep_res,                   \* transcript files read by the task creator's prep
    exec_res,                   \* value returned by exec of the enumerator / task creator
    \* --- shared context collections ---
    video_sources_queue,        \* sequence of job titles (original_title)
    phase_1_results,            \* title -> result record or NoResult
    raw_transcript_files,       \* set of titles with a saved transcript
    refinement_tasks,           \* sequence of [video_title, style_name]
    phase_2_results,            \* task_id -> status or "absent"
    \* --- ParallelAcquisitionCoordinatorNode.exec ---
    acq_pc,                     \* "idle" | "start" | "pool" | "shutdown"
    fstate,                     \* job -> future/work-item state
    outcome,                    \* job -> what the job function did
    yielded,                    \* jobs as_completed has handed to the loop
    results,                    \* exec-local results dict
    completed,                  \* exec-local completed counter
    stop_acq_pc,                \* history: acq_pc when stop was requested ("never" before)
    fstate_at_stop,             \* history: fstate when stop was requested
    began_after_stop,           \* history: jobs that began executing after stop
    \* --- AsyncRefinementCoordinatorNode.exec ---
    ref_pc,                     \* "idle" | "start" | "gather"
    tpc,                        \* task -> coroutine position
    tresult,                    \* task -> returned status or "none"
    sem_value,                  \* asyncio.Semaphore._value
    sem_waiters,                \* asyncio.Semaphore._waiters (FIFO)
    tpc_at_stop,                \* history: tpc when stop was requested
    llm_calls,                  \* history: tasks whose LLM call was started
    raised,                     \* history: tasks in which load, refine or save raised
    output_files,               \* the watched output files: task key -> state of the file
    \* --- batch and resume inputs, and the files of intermediate_dir ---
    csv_file,                   \* the file at flow_params["csv_path"], {} without one
    csv_jobs,                   \* shared["csv_jobs"]: rows of the batch CSV, job_id = row number
    expanded,                   \* what the inputs expand to: [original_title, job_id] in order
    resume_mode,                \* shared["resume_mode"]
    intermediate_dir,           \* stems of the *_raw_transcript.txt files on disk
    transcript_file_to_job_id,  \* shared["transcript_file_to_job_id"]
    build_pc,                   \* position of the data-path run, "off" outside it
    \* --- inputs and results of the functions checked on their own ---
    fn_pc,                      \* "off" | "range" | "applied" | "parsed"
    items,                      \* the expanded list (urls, files or feed entries)
    start_index, end_index,     \* shared["start_index"], shared["end_index"]
    sliced,                     \* the items range slicing selects
    episodes,                   \* what parse_podcast_rss returns
    text_content,               \* the transcript handed to refine_text_with_llm
    style_prompt_template,      \* the prompt template of the style
    chunk_size,                 \* shared["llm_chunk_size"]
    chunks,                     \* refine_text_with_llm: chunks (empty when not split)
    llm_prompts,                \* the prompts sent to the LLM, in call order
    refined_chunks,             \* the replies received, in call order
    refined,                    \* the returned text, <<"raised">> when a call raised
    \* --- async_refine_single_task, one task step by step ---
    sidecar,                    \* the <safe_title>.meta.json file: {} when there is none
    metadata_enhancement_enabled, \* gemini_config["metadata_enhancement_enabled"]
    enrich_response,            \* what happened in enhance_metadata_with_llm, "none" before
    add,                        \* the dict `add` of the task, {} before it is bound
    meta,                       \* the dict `meta` of the task, {} before it is loaded
    steps_done,                 \* history: the steps of the task that returned, and
                                \* "<step>_raised" for the one that raised
    task_status,                \* status of the returned result, "none" before
    \* --- call_llm, one invocation attempt by attempt ---
    attempt,                    \* the loop variable of `for attempt in range(...)`
    provider_log,               \* history: what each provider call gave back
    slept,                      \* history: seconds spent in time.sleep
    \* --- the progress reports of one coordinator ---
    progress_coordinator,       \* "acquisition" | "refinement", "none" outside
    progress_total,             \* total_videos / total_tasks
    progress_completed,         \* the exec-local completed counter
    progress_reported,          \* history: the values handed to progress_callback
    progress_cancelled,         \* a unit was cancelled, or the loop broke on stop
    progress_ended,             \* the loop / gather is over
    \* --- one source from acquisition to the sidecar lookup of its tasks ---
    source_title,               \* video_data["original_title"]
    saved_transcript_stem,      \* stem of the file save_raw_transcript wrote
    saved_meta_stem,            \* name of the sidecar written, less ".json"
    task_video_title,           \* task["video_title"]
    loaded_meta_stem,           \* name of the sidecar looked up, less ".json"
    \* --- a run followed by a resume run over the same input ---
    run_no,                     \* 0 outside, 1 in the first run, 2 in the resume run
    first_results,              \* history: job -> status in the first run
    first_queue                 \* history: video_sources_queue of the first run

flowVars == <<topology, curr, step, trace, prep_res, exec_res>>
paramVars == <<run_phase_1, run_phase_2, requested_workers, asr_cap,
               max_workers_processes, max_workers_async, selected_styles,
               phase2_skip_existing, phase2_max_concurrency>>
sharedVars == <<video_sources_queue, phase_1_results, raw_transcript_files,
                refinement_tasks, phase_2_results>>
acqVars == <<acq_pc, fstate, outcome, yielded, results, completed,
             stop_acq_pc, fstate_at_stop, began_after_stop>>
refVars == <<ref_pc, tpc, tresult, sem_value, sem_waiters, tpc_at_stop,
             llm_calls, raised, output_files>>
batchVars == <<csv_file, csv_jobs, expanded, resume_mode, intermediate_dir,
               transcript_file_to_job_id, build_pc>>
rangeVars == <<items, start_index, end_index, sliced, episodes>>
chunkVars == <<text_content, style_prompt_template, chunk_size, chunks,
               llm_prompts, refined_chunks, refined>>
metaVars == <<sidecar, metadata_enhancement_enabled, enrich_response, add,
              meta, steps_done, task_status>>
retryVars == <<attempt, provider_log, slept>>
progressVars == <<progress_coordinator, progress_total, progress_completed,
                  progress_reported, progress_cancelled, progress_ended>>
sidecarVars == <<source_title, saved_transcript_stem, saved_meta_stem,
                 task_video_title, loaded_meta_stem>>
resumeVars == <<run_no, first_results, first_queue>>
unitVars == <<metaVars, retryVars, progressVars, sidecarVars, resumeVars>>
fnVars == <<fn_pc, rangeVars, chunkVars, unitVars>>

\* outside a function check: the defaults of flow_params, nothing computed
RangeIdle ==
    /\ items = <<>>
    /\ start_index = 1
    /\ end_index = 0
    /\ sliced = <<>>
    /\ episodes = <<>>

ChunkIdle ==
    /\ text_content = <<>>
    /\ style_prompt_template = <<>>
    /\ chunk_size = 1
    /\ chunks = <<>>
    /\ llm_prompts = <<>>
    /\ refined_chunks = <<>>
    /\ refined = <<>>

MetaIdle ==
    /\ sidecar = {}
    /\ metadata_enhancement_enabled = TRUE
    /\ enrich_response = "none"
    /\ add = {}
    /\ meta = {}
    /\ steps_done = {}
    /\ task_status = "none"

RetryIdle ==
    /\ attempt = 0
    /\ provider_log = <<>>
    /\ slept = 0

ProgressIdle ==
    /\ progress_coordinator = "none"
    /\ progress_total = 0
    /\ progress_completed = 0
    /\ progress_reported = <<>>
    /\ progress_cancelled = FALSE
    /\ progress_ended = FALSE

SidecarIdle ==
    /\ source_title = <<>>
    /\ saved_transcript_stem = <<>>
    /\ saved_meta_stem = <<>>
    /\ task_video_title = <<>>
    /\ loaded_meta_stem = <<>>

ResumeIdle ==
    /\ run_no = 0
    /\ first_results = <<>>
    /\ first_queue = <<>>

UnitIdle == MetaIdle /\ RetryIdle /\ ProgressIdle /\ SidecarIdle /\ ResumeIdle

FnIdle == fn_pc = "off" /\ RangeIdle /\ ChunkIdle /\ UnitIdle
vars == <<paramVars, stop_requested, runner_pc, flowVars, sharedVars,
          acqVars, refVars, batchVars, fnVars>>

(* ---------------------------- helpers ---------------------------------- *)
Min(a, b) == IF a <= b THEN a ELSE b

Titles == {"A", "B"}
Styles == 1..MaxStyles

Stages == {"InputExpansion", "ParallelAcquisition", "RefinementTaskCreator",
           "AsyncRefinement", "TempFileCleanup", "FlowCompletion"}

NoResult == [status |-> "absent", transcript_file |-> "none", error |-> "none"]

(* ------------------------ runner construction --------------------------- *)
\* faulty variant: the provider cap is not applied
CappedWorkersIgnoringCap(requested, cap) == requested

\* _capped_phase1_workers: cap None -> requested, else min(requested, cap)
_capped_phase1_workers(requested, cap) ==
    IF cap = {} THEN requested
    ELSE Min(requested, CHOOSE c \in cap : TRUE)

\* faulty variant: the final else builds the full flow instead of raising
CreateFlowNeverRaises(p1, p2) ==
    IF p1 /\ ~p2 THEN "phase1"
    ELSE IF ~p1 /\ p2 THEN "phase2"
    ELSE "full"

\* create_flow_for_phases: which topology the two flags select ("raise" = ValueError)
create_flow_for_phases(p1, p2) ==
    IF p1 /\ p2 THEN "full"
    ELSE IF p1 /\ ~p2 THEN "phase1"
    ELSE IF ~p1 /\ p2 THEN "phase2"
    ELSE "raise"

\* Flow(start=...) of each create_*_flow
StartNode(topo) ==
    IF topo = "phase2" THEN "RefinementTaskCreator" ELSE "InputExpansion"

\* faulty variant: the no-input edge of the full flow is wired as in the phase-1 flow
FullSuccessorNoInputToCompletion(node, action) ==
    CASE node = "InputExpansion" /\ action = "start_parallel_acquisition"
            -> "ParallelAcquisition"
      [] node = "InputExpansion" /\ action = "phase_1_complete_no_input"
            -> "FlowCompletion"
      [] node = "ParallelAcquisition" /\ action = "phase_1_complete"
            -> "RefinementTaskCreator"
      [] node = "RefinementTaskCreator" /\ action = "start_async_refinement"
            -> "AsyncRefinement"
      [] node = "RefinementTaskCreator" /\ action = "phase_2_complete_no_tasks"
            -> "TempFileCleanup"
      [] node = "AsyncRefinement" /\ action = "phase_2_complete"
            -> "TempFileCleanup"
      [] node = "TempFileCleanup" /\ action = "cleanup_complete"
            -> "FlowCompletion"
      [] OTHER -> "none"

\* The `node - "action" >> next` wiring of create_bodhi_flow; "none" = no successor
FullSuccessor(node, action) ==
    CASE node = "InputExpansion" /\ action = "start_parallel_acquisition"
            -> "ParallelAcquisition"
      [] node = "InputExpansion" /\ action = "phase_1_complete_no_input"
            -> "RefinementTaskCreator"
      [] node = "ParallelAcquisition" /\ action = "phase_1_complete"
            -> "RefinementTaskCreator"
      [] node = "RefinementTaskCreator" /\ action = "start_async_refinement"
            -> "AsyncRefinement"
      [] node = "RefinementTaskCreator" /\ action = "phase_2_complete_no_tasks"
            -> "TempFileCleanup"
      [] node = "AsyncRefinement" /\ action = "phase_2_complete"
            -> "TempFileCleanup"
      [] node = "TempFileCleanup" /\ action = "cleanup_complete"
            -> "FlowCompletion"
      [] OTHER -> "none"

\* faulty variant: the phase-1 flow sends phase_1_complete on to the task creator
Phase1SuccessorIntoPhase2(node, action) ==
    CASE node = "InputExpansion" /\ action = "start_parallel_acquisition"
            -> "ParallelAcquisition"
      [] node = "InputExpansion" /\ action = "phase_1_complete_no_input"
            -> "FlowCompletion"
      [] node = "ParallelAcquisition" /\ action = "phase_1_complete"
            -> "RefinementTaskCreator"
      [] node = "TempFileCleanup" /\ action = "cleanup_complete"
            -> "FlowCompletion"
      [] OTHER -> "none"

\* faulty variant: the phase-1 flow registers no edge for an empty queue
Phase1SuccessorWithoutNoInput(node, action) ==
    CASE node = "InputExpansion" /\ action = "start_parallel_acquisition"
            -> "ParallelAcquisition"
      [] node = "ParallelAcquisition" /\ action = "phase_1_complete"
            -> "TempFileCleanup"
      [] node = "TempFileCleanup" /\ action = "cleanup_complete"
            -> "FlowCompletion"
      [] OTHER -> "none"

\* the wiring of create_phase_1_only_flow
Phase1Successor(node, action) ==
    CASE node = "InputExpansion" /\ action = "start_parallel_acquisition"
            -> "ParallelAcquisition"
      [] node = "InputExpansion" /\ action = "phase_1_complete_no_input"
            -> "FlowCompletion"
      [] node = "ParallelAcquisition" /\ action = "phase_1_complete"
            -> "TempFileCleanup"
      [] node = "TempFileCleanup" /\ action = "cleanup_complete"
            -> "FlowCompletion"
      [] OTHER -> "none"

\* the wiring of create_phase_2_only_flow
Phase2Successor(node, action) ==
    CASE node = "RefinementTaskCreator" /\ action = "start_async_refinement"
            -> "AsyncRefinement"
      [] node = "RefinementTaskCreator" /\ action = "phase_2_complete_no_tasks"
            -> "FlowCompletion"
      [] node = "AsyncRefinement" /\ action = "phase_2_complete"
            -> "FlowCompletion"
      [] OTHER -> "none"

\* successors.get(action) in the flow that was built
Successor(topo, node, action) ==
    CASE topo = "full" -> FullSuccessor(node, action)
      [] topo = "phase1" -> Phase1Successor(node, action)
      [] topo = "phase2" -> Phase2Successor(node, action)
      [] OTHER -> "none"

\* the action labels each node's post can return
PostLabels(node) ==
    CASE node = "InputExpansion" ->
            {"start_parallel_acquisition", "phase_1_complete_no_input"}
      [] node = "ParallelAcquisition" -> {"phase_1_complete"}
      [] node = "RefinementTaskCreator" ->
            {"start_async_refinement", "phase_2_complete_no_tasks"}
      [] node = "AsyncRefinement" -> {"phase_2_complete"}
      [] node = "TempFileCleanup" -> {"cleanup_complete"}
      [] node = "FlowCompletion" -> {"flow_complete"}

\* queues the enumerator can produce (titles named in order of first occurrence;
\* two jobs may carry the same original_title)
Queues ==
    UNION {{q \in [1..n -> Titles] : n > 0 => q[1] = "A"} : n \in 0..MaxJobs}

Jobs == 1..Len(video_sources_queue)
Tasks == 1..Len(refinement_tasks)

\* create_refinement_tasks: transcripts x styles, transcript-major order
create_refinement_tasks(transcripts, styles) ==
    [i \in 1..(Len(transcripts) * Len(styles)) |->
        [video_title |-> transcripts[((i - 1) \div Len(styles)) + 1],
         style_name  |-> styles[((i - 1) % Len(styles)) + 1]]]

\* a set of titles as a list (file order on disk / in raw_transcript_files)
TitleList(S) ==
    IF S = {} THEN <<>>
    ELSE IF S = {"A"} THEN <<"A">>
    ELSE IF S = {"B"} THEN <<"B">>
    ELSE <<"A", "B">>

(* ------------------------------- Init ----------------------------------- *)
\* PocketFlowRunner.__init__ and _initialize_shared_memory, but for the
\* batch CSV
RunSetup ==
    /\ run_phase_1 \in BOOLEAN
    /\ run_phase_2 \in BOOLEAN
    /\ requested_workers \in 1..MaxRequested
    /\ asr_cap \in {{}} \cup {{c} : c \in 1..MaxCap}
    /\ max_workers_processes = _capped_phase1_workers(requested_workers, asr_cap)
    /\ selected_styles \in {[i \in 1..n |-> i] : n \in 0..MaxStyles}
    /\ stop_requested = FALSE
    /\ runner_pc = "init"
    /\ topology = "none"
    /\ curr = "none"
    /\ step = "prep"
    /\ trace = <<>>
    /\ prep_res = {}
    /\ exec_res = <<>>
    /\ video_sources_queue = <<>>
    /\ phase_1_results = [t \in Titles |-> NoResult]
    /\ raw_transcript_files = {}
    /\ refinement_tasks = <<>>
    /\ phase_2_results = [k \in Titles \X Styles |-> "absent"]
    /\ acq_pc = "idle"
    /\ fstate = <<>>
    /\ outcome = <<>>
    /\ yielded = {}
    /\ results = [t \in Titles |-> NoResult]
    /\ completed = 0
    /\ stop_acq_pc = "never"
    /\ fstate_at_stop = <<>>
    /\ began_after_stop = {}
    /\ ref_pc = "idle"
    /\ tpc = <<>>
    /\ tresult = <<>>
    /\ sem_value = 0
    /\ sem_waiters = <<>>
    /\ tpc_at_stop = <<>>
    /\ llm_calls = {}
    /\ raised = {}
    \* a run without resume: nothing to skip
    /\ expanded = <<>>
    /\ resume_mode = FALSE
    /\ intermediate_dir = {}
    /\ transcript_file_to_job_id = <<>>
    /\ build_pc = "off"
    /\ FnIdle

\* a single-input run: no csv_path, no CSV rows; the skip-existing option
\* is off; the phase-2 model declares the concurrency the run uses
RunInit ==
    /\ RunSetup
    /\ max_workers_async \in 1..MaxAsync
    /\ phase2_max_concurrency = {max_workers_async}
    /\ phase2_skip_existing = FALSE
    /\ csv_file = {}
    /\ csv_jobs = <<>>

\* a run in which the output directory is not watched
Init == RunInit /\ output_files = <<>>

(* --------------------------- runner and flow ---------------------------- *)
\* PocketFlowRunner.run up to flow.run: build the flow or catch the ValueError
RunnerStart ==
    /\ runner_pc = "init"
    /\ LET topo == create_flow_for_phases(run_phase_1, run_phase_2) IN
         IF topo = "raise"
         THEN /\ runner_pc' = "error"
              /\ UNCHANGED <<topology, curr, step>>
         ELSE /\ runner_pc' = "flow"
              /\ topology' = topo
              /\ curr' = StartNode(topo)
              /\ step' = "prep"
    /\ UNCHANGED <<batchVars, fnVars, paramVars, stop_requested, trace, prep_res, exec_res,
                   sharedVars, acqVars, refVars>>

\* PocketFlowRunner.stop, called from the GUI thread at any moment of a run
RequestStop ==
    /\ runner_pc \in {"init", "flow"}
    /\ ~stop_requested
    /\ stop_requested' = TRUE
    /\ stop_acq_pc' = acq_pc
    /\ fstate_at_stop' = fstate
    /\ tpc_at_stop' = tpc
    /\ UNCHANGED <<batchVars, fnVars, paramVars, runner_pc, flowVars, sharedVars,
                   acq_pc, fstate, outcome, yielded, results, completed,
                   began_after_stop,
                   ref_pc, tpc, tresult, sem_value, sem_waiters, llm_calls,
                   raised, output_files>>

\* Flow._orch: follow the successor registered for the action post returned;
\* with no successor the flow ends and run() returns
Advance(action) ==
    LET nxt == Successor(topology, curr, action) IN
      IF nxt = "none"
      THEN /\ curr' = "none"
           /\ step' = "prep"
           /\ runner_pc' = "done"
      ELSE /\ curr' = nxt
           /\ step' = "prep"
           /\ runner_pc' = runner_pc

\* an exception escaping a node's exec ends flow.run; run() catches it.
\* RefinementTaskCreatorNode.exec returns [] for no transcripts or no styles
\* before it calls anything that can raise
ExecRaises ==
    /\ runner_pc = "flow"
    /\ curr \in {"InputExpansion", "RefinementTaskCreator", "TempFileCleanup"}
    /\ step = "exec"
    /\ curr = "RefinementTaskCreator" =>
          prep_res # {} /\ selected_styles # <<>>
    /\ runner_pc' = "error"
    /\ curr' = "none"
    /\ step' = "prep"
    /\ UNCHANGED <<batchVars, fnVars, paramVars, stop_requested, topology, trace, prep_res, exec_res,
                   sharedVars, acqVars, refVars>>

(* --------------------------- InputExpansionNode -------------------------- *)
InputExpansionPrep ==
    /\ runner_pc = "flow" /\ curr = "InputExpansion" /\ step = "prep"
    /\ step' = "exec"
    /\ trace' = Append(trace, curr)
    /\ UNCHANGED <<batchVars, fnVars, paramVars, stop_requested, runner_pc, topology, curr, prep_res,
                   exec_res, sharedVars, acqVars, refVars>>

\* faulty variant: exec stores the queue in the shared context itself
InputExpansionExecWritesShared ==
    /\ runner_pc = "flow" /\ curr = "InputExpansion" /\ step = "exec"
    /\ \E q \in Queues : exec_res' = q /\ video_sources_queue' = q
    /\ step' = "post"
    /\ UNCHANGED <<batchVars, fnVars, paramVars, stop_requested, runner_pc, topology, curr, trace,
                   prep_res, phase_1_results, raw_transcript_files,
                   refinement_tasks, phase_2_results, acqVars, refVars>>

InputExpansionExec ==
    /\ runner_pc = "flow" /\ curr = "InputExpansion" /\ step = "exec"
    /\ \E q \in Queues : exec_res' = q
    /\ step' = "post"
    /\ UNCHANGED <<batchVars, fnVars, paramVars, stop_requested, runner_pc, topology, curr, trace,
                   prep_res, sharedVars, acqVars, refVars>>

\* faulty variant: post returns start_parallel_acquisition whatever exec
\* returned
InputExpansionPostAlwaysStarts ==
    /\ runner_pc = "flow" /\ curr = "InputExpansion" /\ step = "post"
    /\ video_sources_queue' = exec_res
    /\ Advance("start_parallel_acquisition")
    /\ UNCHANGED <<batchVars, fnVars, paramVars, stop_requested, topology, trace, prep_res, exec_res,
                   phase_1_results, raw_transcript_files, refinement_tasks,
                   phase_2_results, acqVars, refVars>>

InputExpansionPost ==
    /\ runner_pc = "flow" /\ curr = "InputExpansion" /\ step = "post"
    /\ video_sources_queue' = exec_res
    /\ Advance(IF exec_res # <<>> THEN "start_parallel_acquisition"
               ELSE "phase_1_complete_no_input")
    /\ UNCHANGED <<batchVars, fnVars, paramVars, stop_requested, topology, trace, prep_res, exec_res,
                   phase_1_results, raw_transcript_files, refinement_tasks,
                   phase_2_results, acqVars, refVars>>

(* -------------------- ParallelAcquisitionCoordinatorNode ---------------- *)
\* what one run of the job function does; "notext" is raw text None or ""
JobOutcomes == {"text", "notext", "raise_caught", "raise_escapes"}

\* faulty variant: the `if raw_text` test is missing, so a job without
\* text saves a transcript and returns success
AcquisitionSucceedsWithoutText(o) ==
    CASE o \in {"text", "notext"} ->
            [kind |-> "return", status |-> "success",
             transcript_file |-> "path", error |-> "none"]
      [] o = "raise_caught" ->
            [kind |-> "return", status |-> "failure",
             transcript_file |-> "none", error |-> "exc_msg"]
      [] o = "raise_escapes" ->
            [kind |-> "raise", status |-> "none",
             transcript_file |-> "none", error |-> "exc_msg"]

\* process_single_video_acquisition: truthy raw text -> the transcript is
\* saved and the result is success with its path and error None; raw text
\* None or "" ("notext") -> failure, transcript_file None and a
\* message; an exception inside its try block -> failure carrying str(e); an
\* exception outside it leaves the worker as the future's exception
process_single_video_acquisition(o) ==
    CASE o = "text" ->
            [kind |-> "return", status |-> "success",
             transcript_file |-> "path", error |-> "none"]
      [] o = "notext" ->
            [kind |-> "return", status |-> "failure",
             transcript_file |-> "none", error |-> "no_transcript"]
      [] o = "raise_caught" ->
            [kind |-> "return", status |-> "failure",
             transcript_file |-> "none", error |-> "exc_msg"]
      [] o = "raise_escapes" ->
            [kind |-> "raise", status |-> "none",
             transcript_file |-> "none", error |-> "exc_msg"]

\* faulty variant: an exception from future.result() leaves no entry
CollectResultDropsException(r) ==
    IF r.kind = "return"
    THEN [status |-> r.status, transcript_file |-> r.transcript_file,
          error |-> r.error]
    ELSE NoResult

\* the try/except around future.result() in exec: the entry stored in results
CollectResult(r) ==
    IF r.kind = "return"
    THEN [status |-> r.status, transcript_file |-> r.transcript_file,
          error |-> r.error]
    ELSE [status |-> "failure", transcript_file |-> "none", error |-> r.error]

\* the executor's call queue holds max_workers + 1 work items; an item in it
\* is already RUNNING for its future, so cancel() no longer applies to it
CallQueueSize(mw) == mw + 1

NumIn(f, s) == Cardinality({j \in DOMAIN f : f[j] = s})

AcquisitionPrep ==
    /\ runner_pc = "flow" /\ curr = "ParallelAcquisition" /\ step = "prep"
    /\ step' = "exec"
    /\ trace' = Append(trace, curr)
    /\ acq_pc' = "start"
    /\ UNCHANGED <<batchVars, fnVars, paramVars, stop_requested, runner_pc, topology, curr, prep_res,
                   exec_res, sharedVars, fstate, outcome, yielded, results,
                   completed, stop_acq_pc, fstate_at_stop, began_after_stop,
                   refVars>>

\* exec up to the submit loop: stop check (a), then every job is submitted
AcquisitionStart ==
    /\ runner_pc = "flow" /\ curr = "ParallelAcquisition" /\ step = "exec"
    /\ acq_pc = "start"
    /\ results' = [t \in Titles |-> NoResult]
    /\ completed' = 0
    /\ yielded' = {}
    /\ IF stop_requested
       THEN /\ acq_pc' = "idle"
            /\ step' = "post"
            /\ UNCHANGED <<fstate, outcome>>
       ELSE /\ acq_pc' = "pool"
            /\ step' = step
            /\ fstate' = [j \in Jobs |-> "PENDING"]
            /\ outcome' = [j \in Jobs |-> "none"]
    /\ UNCHANGED <<batchVars, fnVars, paramVars, stop_requested, runner_pc, topology, curr, trace,
                   prep_res, exec_res, sharedVars, stop_acq_pc, fstate_at_stop,
                   began_after_stop, refVars>>

\* executor management thread: move the oldest pending work item into the
\* call queue while the queue has room
PoolEnqueue(j) ==
    /\ acq_pc \in {"pool", "shutdown"}
    /\ fstate[j] = "PENDING"
    /\ \A k \in Jobs : k < j => fstate[k] # "PENDING"
    /\ NumIn(fstate, "QUEUED") < CallQueueSize(max_workers_processes)
    /\ fstate' = [fstate EXCEPT ![j] = "QUEUED"]
    /\ UNCHANGED <<batchVars, fnVars, paramVars, stop_requested, runner_pc, flowVars, sharedVars,
                   acq_pc, outcome, yielded, results, completed, stop_acq_pc,
                   fstate_at_stop, began_after_stop, refVars>>

\* an idle worker process takes the oldest item of the call queue
WorkerStart(j) ==
    /\ acq_pc \in {"pool", "shutdown"}
    /\ fstate[j] = "QUEUED"
    /\ \A k \in Jobs : k < j => fstate[k] # "QUEUED"
    /\ NumIn(fstate, "EXECUTING") < max_workers_processes
    /\ fstate' = [fstate EXCEPT ![j] = "EXECUTING"]
    /\ began_after_stop' = IF stop_requested THEN began_after_stop \cup {j}
                           ELSE began_after_stop
    /\ UNCHANGED <<batchVars, fnVars, paramVars, stop_requested, runner_pc, flowVars, sharedVars,
                   acq_pc, outcome, yielded, results, completed, stop_acq_pc,
                   fstate_at_stop, refVars>>

\* the job function ends in its worker; the future becomes done
WorkerFinish(j, o) ==
    /\ acq_pc \in {"pool", "shutdown"}
    /\ fstate[j] = "EXECUTING"
    /\ fstate' = [fstate EXCEPT ![j] = "FINISHED"]
    /\ outcome' = [outcome EXCEPT ![j] = o]
    /\ UNCHANGED <<batchVars, fnVars, paramVars, stop_requested, runner_pc, flowVars, sharedVars,
                   acq_pc, yielded, results, completed, stop_acq_pc,
                   fstate_at_stop, began_after_stop, refVars>>

\* one iteration of `for future in as_completed(...)`: stop check (c), then
\* either cancel what is still pending and break, or store the result
AcquisitionCollect(j) ==
    /\ runner_pc = "flow" /\ curr = "ParallelAcquisition" /\ step = "exec"
    /\ acq_pc = "pool"
    /\ fstate[j] = "FINISHED"
    /\ j \notin yielded
    /\ IF stop_requested
       THEN /\ fstate' = [k \in Jobs |->
                            IF fstate[k] = "PENDING" THEN "CANCELLED" ELSE fstate[k]]
            /\ acq_pc' = "shutdown"
            /\ UNCHANGED <<yielded, results, completed>>
       ELSE /\ results' = [results EXCEPT ![video_sources_queue[j]] =
                              CollectResult(process_single_video_acquisition(outcome[j]))]
            /\ completed' = completed + 1
            /\ yielded' = yielded \cup {j}
            /\ UNCHANGED <<fstate, acq_pc>>
    /\ UNCHANGED <<batchVars, fnVars, paramVars, stop_requested, runner_pc, flowVars, sharedVars,
                   outcome, stop_acq_pc, fstate_at_stop, began_after_stop,
                   refVars>>

\* as_completed is exhausted: the loop ends and the with block is left
AcquisitionLoopEnd ==
    /\ runner_pc = "flow" /\ curr = "ParallelAcquisition" /\ step = "exec"
    /\ acq_pc = "pool"
    /\ yielded = Jobs
    /\ acq_pc' = "shutdown"
    /\ UNCHANGED <<batchVars, fnVars, paramVars, stop_requested, runner_pc, flowVars, sharedVars,
                   fstate, outcome, yielded, results, completed, stop_acq_pc,
                   fstate_at_stop, began_after_stop, refVars>>

\* faulty variant: the executor is left with shutdown(wait=False)
AcquisitionShutdownWithoutWait ==
    /\ runner_pc = "flow" /\ curr = "ParallelAcquisition" /\ step = "exec"
    /\ acq_pc = "shutdown"
    /\ acq_pc' = "idle"
    /\ step' = "post"
    /\ UNCHANGED <<batchVars, fnVars, paramVars, stop_requested, runner_pc, topology, curr, trace,
                   prep_res, exec_res, sharedVars, fstate, outcome, yielded,
                   results, completed, stop_acq_pc, fstate_at_stop,
                   began_after_stop, refVars>>

\* leaving `with ProcessPoolExecutor`: shutdown(wait=True) returns once no
\* work item is left to run; exec then returns results
AcquisitionShutdown ==
    /\ runner_pc = "flow" /\ curr = "ParallelAcquisition" /\ step = "exec"
    /\ acq_pc = "shutdown"
    /\ \A j \in Jobs : fstate[j] \in {"FINISHED", "CANCELLED"}
    /\ acq_pc' = "idle"
    /\ step' = "post"
    /\ UNCHANGED <<batchVars, fnVars, paramVars, stop_requested, runner_pc, topology, curr, trace,
                   prep_res, exec_res, sharedVars, fstate, outcome, yielded,
                   results, completed, stop_acq_pc, fstate_at_stop,
                   began_after_stop, refVars>>

\* post: phase_1_results, raw_transcript_files, then the phase_1_complete edge
AcquisitionPost ==
    /\ runner_pc = "flow" /\ curr = "ParallelAcquisition" /\ step = "post"
    /\ phase_1_results' = results
    /\ raw_transcript_files' = {t \in Titles : results[t].status = "success"}
    /\ Advance("phase_1_complete")
    \* the locals of exec go out of scope
    /\ fstate' = <<>>
    /\ outcome' = <<>>
    /\ yielded' = {}
    /\ results' = [t \in Titles |-> NoResult]
    /\ completed' = 0
    /\ fstate_at_stop' = <<>>
    /\ began_after_stop' = {}
    /\ UNCHANGED <<batchVars, fnVars, paramVars, stop_requested, topology, trace, prep_res, exec_res,
                   video_sources_queue, refinement_tasks, phase_2_results,
                   acq_pc, stop_acq_pc, refVars>>

(* ------------------------ RefinementTaskCreatorNode --------------------- *)
\* prep: transcripts are discovered on disk in phase-2-only mode, else taken
\* from raw_transcript_files
RefinementTaskCreatorPrep ==
    /\ runner_pc = "flow" /\ curr = "RefinementTaskCreator" /\ step = "prep"
    /\ step' = "exec"
    /\ trace' = Append(trace, curr)
    /\ IF ~run_phase_1
       THEN \E found \in SUBSET Titles : prep_res' = found
       ELSE prep_res' = raw_transcript_files
    /\ UNCHANGED <<batchVars, fnVars, paramVars, stop_requested, runner_pc, topology, curr, exec_res,
                   sharedVars, acqVars, refVars>>

\* exec: no transcripts or no styles -> []; else the cross product
RefinementTaskCreatorExec ==
    /\ runner_pc = "flow" /\ curr = "RefinementTaskCreator" /\ step = "exec"
    /\ exec_res' = IF prep_res = {} THEN <<>>
                   ELSE IF selected_styles = <<>> THEN <<>>
                   ELSE create_refinement_tasks(TitleList(prep_res), selected_styles)
    /\ step' = "post"
    /\ UNCHANGED <<batchVars, fnVars, paramVars, stop_requested, runner_pc, topology, curr, trace,
                   prep_res, sharedVars, acqVars, refVars>>

RefinementTaskCreatorPost ==
    /\ runner_pc = "flow" /\ curr = "RefinementTaskCreator" /\ step = "post"
    /\ refinement_tasks' = exec_res
    /\ Advance(IF exec_res # <<>> THEN "start_async_refinement"
               ELSE "phase_2_complete_no_tasks")
    /\ UNCHANGED <<batchVars, fnVars, paramVars, stop_requested, topology, trace, prep_res, exec_res,
                   video_sources_queue, phase_1_results, raw_transcript_files,
                   phase_2_results, acqVars, refVars>>

(* ---------------------- AsyncRefinementCoordinatorNode ------------------ *)
\* faulty variant: the callback handed to the refinement node never reports
\* the stop
StopCheckAlwaysFalse == FALSE

\* PocketFlowRunner._check_stop_requested, the stop_check_callback the
\* refinement node reads in exec and in process_single_task
_check_stop_requested == stop_requested

RefinementPrep ==
    /\ runner_pc = "flow" /\ curr = "AsyncRefinement" /\ step = "prep"
    /\ step' = "exec"
    /\ trace' = Append(trace, curr)
    /\ ref_pc' = "start"
    /\ UNCHANGED <<batchVars, fnVars, paramVars, stop_requested, runner_pc, topology, curr, prep_res,
                   exec_res, sharedVars, acqVars, tpc, tresult, sem_value,
                   sem_waiters, tpc_at_stop, llm_calls, raised, output_files>>

\* exec up to asyncio.gather: stop check, then the semaphore and one
\* coroutine per task are created
RefinementStart ==
    /\ runner_pc = "flow" /\ curr = "AsyncRefinement" /\ step = "exec"
    /\ ref_pc = "start"
    /\ IF _check_stop_requested
       THEN /\ ref_pc' = "idle"
            /\ step' = "post"
            /\ tpc' = <<>>
            /\ tresult' = <<>>
            /\ UNCHANGED <<sem_value, sem_waiters>>
       ELSE /\ ref_pc' = "gather"
            /\ step' = step
            /\ tpc' = [t \in Tasks |-> "new"]
            /\ tresult' = [t \in Tasks |-> "none"]
            /\ sem_value' = max_workers_async
            /\ sem_waiters' = <<>>
    /\ UNCHANGED <<batchVars, fnVars, paramVars, stop_requested, runner_pc, topology, curr, trace,
                   prep_res, exec_res, sharedVars, acqVars, tpc_at_stop,
                   llm_calls, raised, output_files>>

\* the key of task t in the results dict and of its output file
TaskKey(t) == <<refinement_tasks[t].video_title, refinement_tasks[t].style_name>>

\* what async_refine_single_task does once sync_refine is over: sync_refine
\* raised; the front matter or the open of the output file raised; f.write
\* raised part-way; or the file was written and closed
RefineEndings == {"saved", "refine_raised", "save_raised", "write_raised"}

\* faulty variant: the except branch reports success
RefineStatusIgnoresException(e) == "success"

\* the status async_refine_single_task returns: success after
\* save_text_to_file returned, failure from its except branch
RefineStatus(e) == IF e = "saved" THEN "success" ELSE "failure"

\* faulty variant: the output file is opened before the transcript is
\* loaded and refined
SaveTextToFileOpensFirst(old, e) ==
    IF e = "saved" THEN "complete" ELSE "partial"

\* save_text_to_file, reached only when load and refine did not raise:
\* the state of the output file after the ending e
save_text_to_file(old, e) ==
    CASE e = "saved" -> "complete"
      [] e = "write_raised" -> "partial"
      [] OTHER -> old

\* faulty variant: locked() looks at the waiters only
SemLockedIgnoresValue(value, waiters) == waiters # <<>>

\* asyncio.Semaphore.locked
SemLocked(value, waiters) == value = 0 \/ waiters # <<>>

\* leaving `async with semaphore` with task t's result: release() hands the
\* slot to the oldest waiter, or gives it back to the semaphore
TaskReturn(t, status) ==
    /\ tresult' = [tresult EXCEPT ![t] = status]
    /\ IF sem_waiters # <<>>
       THEN /\ tpc' = [tpc EXCEPT ![t] = "done", ![Head(sem_waiters)] = "load"]
            /\ sem_waiters' = Tail(sem_waiters)
            /\ sem_value' = sem_value
       ELSE /\ tpc' = [tpc EXCEPT ![t] = "done"]
            /\ sem_waiters' = sem_waiters
            /\ sem_value' = sem_value + 1

\* first run of process_single_task up to its first suspension (coroutines
\* start in gather order): the stop check, then `async with semaphore`; with
\* a free slot load_raw_transcript runs at once and the coroutine suspends in
\* run_in_executor, or returns the failure and releases the slot
TaskBegin(t, ok) ==
    /\ ref_pc = "gather"
    /\ tpc[t] = "new"
    /\ \A u \in Tasks : u < t => tpc[u] # "new"
    /\ IF _check_stop_requested
       THEN /\ tpc' = [tpc EXCEPT ![t] = "done"]
            /\ tresult' = [tresult EXCEPT ![t] = "cancelled"]
            /\ UNCHANGED <<sem_value, sem_waiters, llm_calls, raised>>
       ELSE IF SemLocked(sem_value, sem_waiters)
       THEN /\ sem_waiters' = Append(sem_waiters, t)
            /\ tpc' = [tpc EXCEPT ![t] = "waiting"]
            /\ UNCHANGED <<tresult, sem_value, llm_calls, raised>>
       ELSE IF ok
       THEN /\ sem_value' = sem_value - 1
            /\ tpc' = [tpc EXCEPT ![t] = "llm"]
            /\ llm_calls' = llm_calls \cup {t}
            /\ UNCHANGED <<tresult, sem_waiters, raised>>
       ELSE /\ tpc' = [tpc EXCEPT ![t] = "done"]
            /\ tresult' = [tresult EXCEPT ![t] = RefineStatus("load_raised")]
            /\ raised' = raised \cup {t}
            /\ UNCHANGED <<sem_value, sem_waiters, llm_calls>>
    /\ UNCHANGED <<batchVars, fnVars, paramVars, stop_requested, runner_pc, flowVars, sharedVars,
                   acqVars, ref_pc, tpc_at_stop, output_files>>

\* a waiter that was handed a slot runs again: load_raw_transcript, then
\* the suspension in run_in_executor or the failure return
TaskResume(t, ok) ==
    /\ ref_pc = "gather"
    /\ tpc[t] = "load"
    /\ IF ok
       THEN /\ tpc' = [tpc EXCEPT ![t] = "llm"]
            /\ llm_calls' = llm_calls \cup {t}
            /\ UNCHANGED <<tresult, sem_value, sem_waiters, raised>>
       ELSE /\ TaskReturn(t, RefineStatus("load_raised"))
            /\ raised' = raised \cup {t}
            /\ UNCHANGED llm_calls
    /\ UNCHANGED <<batchVars, fnVars, paramVars, stop_requested, runner_pc, flowVars, sharedVars,
                   acqVars, ref_pc, tpc_at_stop, output_files>>

\* the awaited run_in_executor(sync_refine) ends; front matter and
\* save_text_to_file run without suspension, then the result is returned
TaskRefine(t, e) ==
    /\ ref_pc = "gather"
    /\ tpc[t] = "llm"
    /\ output_files' = IF TaskKey(t) \in DOMAIN output_files
                       THEN [output_files EXCEPT
                               ![TaskKey(t)] = save_text_to_file(@, e)]
                       ELSE output_files
    /\ raised' = IF e = "saved" THEN raised ELSE raised \cup {t}
    /\ TaskReturn(t, RefineStatus(e))
    /\ UNCHANGED <<batchVars, fnVars, paramVars, stop_requested, runner_pc, flowVars, sharedVars,
                   acqVars, ref_pc, tpc_at_stop, llm_calls>>

\* gather returns once every coroutine has returned; exec returns results
RefinementGathered ==
    /\ runner_pc = "flow" /\ curr = "AsyncRefinement" /\ step = "exec"
    /\ ref_pc = "gather"
    /\ \A t \in Tasks : tpc[t] = "done"
    /\ ref_pc' = "idle"
    /\ step' = "post"
    /\ UNCHANGED <<batchVars, fnVars, paramVars, stop_requested, runner_pc, topology, curr, trace,
                   prep_res, exec_res, sharedVars, acqVars, tpc, tresult,
                   sem_value, sem_waiters, tpc_at_stop, llm_calls, raised, output_files>>

\* the results dict built after gather, keyed by task id
RefinementResults ==
    [k \in Titles \X Styles |->
        IF \E t \in DOMAIN tresult : <<refinement_tasks[t].video_title,
                                       refinement_tasks[t].style_name>> = k
        THEN LET t == CHOOSE u \in DOMAIN tresult :
                        <<refinement_tasks[u].video_title,
                          refinement_tasks[u].style_name>> = k
             IN tresult[t]
        ELSE "absent"]

RefinementPost ==
    /\ runner_pc = "flow" /\ curr = "AsyncRefinement" /\ step = "post"
    /\ phase_2_results' = RefinementResults
    /\ Advance("phase_2_complete")
    \* the locals of exec go out of scope
    /\ tpc' = <<>>
    /\ tresult' = <<>>
    /\ sem_value' = 0
    /\ sem_waiters' = <<>>
    /\ tpc_at_stop' = <<>>
    /\ llm_calls' = {}
    /\ raised' = {}
    /\ UNCHANGED <<batchVars, fnVars, paramVars, stop_requested, topology, trace, prep_res, exec_res,
                   video_sources_queue, phase_1_results, raw_transcript_files,
                   refinement_tasks, acqVars, ref_pc, output_files>>

(* ---------------- TempFileCleanupNode and FlowCompletionNode ------------- *)
\* prep, exec (rmtree of temp_dir) and post of a node that only reads shared
UtilityPrep ==
    /\ runner_pc = "flow" /\ curr \in {"TempFileCleanup", "FlowCompletion"}
    /\ step = "prep"
    /\ step' = "exec"
    /\ trace' = Append(trace, curr)
    /\ UNCHANGED <<batchVars, fnVars, paramVars, stop_requested, runner_pc, topology, curr, prep_res,
                   exec_res, sharedVars, acqVars, refVars>>

UtilityExec ==
    /\ runner_pc = "flow" /\ curr \in {"TempFileCleanup", "FlowCompletion"}
    /\ step = "exec"
    /\ step' = "post"
    /\ UNCHANGED <<batchVars, fnVars, paramVars, stop_requested, runner_pc, topology, curr, trace,
                   prep_res, exec_res, sharedVars, acqVars, refVars>>

UtilityPost ==
    /\ runner_pc = "flow" /\ curr \in {"TempFileCleanup", "FlowCompletion"}
    /\ step = "post"
    /\ Advance(IF curr = "TempFileCleanup" THEN "cleanup_complete" ELSE "flow_complete")
    /\ UNCHANGED <<batchVars, fnVars, paramVars, stop_requested, topology, trace, prep_res, exec_res,
                   sharedVars, acqVars, refVars>>

(* ------------------------------ specification --------------------------- *)
Next ==
    \/ RunnerStart
    \/ RequestStop
    \/ ExecRaises
    \/ InputExpansionPrep
    \/ InputExpansionExec
    \/ InputExpansionPost
    \/ AcquisitionPrep
    \/ AcquisitionStart
    \/ \E j \in Jobs : PoolEnqueue(j)
    \/ \E j \in Jobs : WorkerStart(j)
    \/ \E j \in Jobs, o \in JobOutcomes : WorkerFinish(j, o)
    \/ \E j \in Jobs : AcquisitionCollect(j)
    \/ AcquisitionLoopEnd
    \/ AcquisitionShutdown
    \/ AcquisitionPost
    \/ RefinementTaskCreatorPrep
    \/ RefinementTaskCreatorExec
    \/ RefinementTaskCreatorPost
    \/ RefinementPrep
    \/ RefinementStart
    \/ \E t \in Tasks, ok \in BOOLEAN : TaskBegin(t, ok)
    \/ \E t \in Tasks, ok \in BOOLEAN : TaskResume(t, ok)
    \/ \E t \in Tasks, e \in RefineEndings : TaskRefine(t, e)
    \/ RefinementGathered
    \/ RefinementPost
    \/ UtilityPrep
    \/ UtilityExec
    \/ UtilityPost

Spec == Init /\ [][Next]_vars

(* ============================== properties ============================== *)
Range(f) == {f[i] : i \in DOMAIN f}

\* exec of the acquisition coordinator has returned; post has not run yet
AcqReturned == curr = "ParallelAcquisition" /\ step = "post"

\* the entry exec stores for job j when it collects it
RealResult(j) == CollectResult(process_single_video_acquisition(outcome[j]))

Started(s) == s \in {"EXECUTING", "FINISHED"}

\* C1: when the stop is requested while the pool is running, exec returns
\* with every job that had started by then finished and its real result in
\* the result map, and with every job that had not started never run.
C1_CancellationDrains ==
    (AcqReturned /\ stop_acq_pc = "pool") =>
        \A j \in Jobs :
            IF Started(fstate_at_stop[j])
            THEN /\ fstate[j] = "FINISHED"
                 /\ results[video_sources_queue[j]] = RealResult(j)
            ELSE ~Started(fstate[j])

\* the acquisition coordinator ran and its post has written the shared context
AcqPosted ==
    /\ "ParallelAcquisition" \in Range(trace)
    /\ curr # "ParallelAcquisition"

\* C2: after the acquisition coordinator returns, phase_1_results holds
\* exactly one result for every job of video_sources_queue, in every run.
C2_OneResultPerJob ==
    AcqPosted =>
        /\ \A j \in Jobs : phase_1_results[video_sources_queue[j]] # NoResult
        /\ Cardinality({t \in Titles : phase_1_results[t] # NoResult})
              = Len(video_sources_queue)

Raised(j) == outcome[j] \in {"raise_caught", "raise_escapes"}

\* exec returned, no stop was requested, and exactly one job raised
OneJobRaised ==
    /\ AcqReturned
    /\ ~stop_requested
    /\ Cardinality({j \in Jobs : Raised(j)}) = 1

IsolatedResults ==
    /\ Cardinality({t \in Titles : results[t] # NoResult}) = Len(video_sources_queue)
    /\ \A j \in Jobs :
          /\ results[video_sources_queue[j]] = RealResult(j)
          /\ Raised(j) => results[video_sources_queue[j]] =
                              [status |-> "failure", transcript_file |-> "none",
                               error |-> "exc_msg"]

DistinctTitles ==
    \A i, j \in Jobs : i # j => video_sources_queue[i] # video_sources_queue[j]

C4_PoolBound ==
    LET n == NumIn(fstate, "EXECUTING") IN
      /\ n <= requested_workers
      /\ \A c \in asr_cap : n <= c

C4_Witness ==
    /\ acq_pc = "pool"
    /\ asr_cap # {}
    /\ \A c \in asr_cap : c < requested_workers /\ NumIn(fstate, "EXECUTING") = c
    /\ NumIn(fstate, "QUEUED") > 0

(* ---- refinement alone, with the event loop's scheduling as fairness ---- *)
\* a phase-2-only run: the task creator discovers transcripts, then refinement
RefineInit ==
    /\ Init
    /\ ~run_phase_1 /\ run_phase_2
    /\ requested_workers = 1 /\ asr_cap = {}    \* not read in a phase-2-only run

RefineStep ==
    \/ RunnerStart
    \/ ExecRaises
    \/ RefinementTaskCreatorPrep
    \/ RefinementTaskCreatorExec
    \/ RefinementTaskCreatorPost
    \/ RefinementPrep
    \/ RefinementStart
    \/ \E t \in Tasks, ok \in BOOLEAN : TaskBegin(t, ok)
    \/ \E t \in Tasks, ok \in BOOLEAN : TaskResume(t, ok)
    \/ \E t \in Tasks, e \in RefineEndings : TaskRefine(t, e)
    \/ RefinementGathered
    \/ RefinementPost
    \/ UtilityPrep
    \/ UtilityExec
    \/ UtilityPost

RefineNext == RefineStep \/ RequestStop

\* every ready coroutine is run by the event loop, and every provider call
\* returns or raises
RefineSpec == RefineInit /\ [][RefineNext]_vars /\ WF_vars(RefineStep)

\* a phase-2-only run whose output directory is watched: no output file
\* exists when the run starts
SaveInit ==
    /\ RunInit
    /\ ~run_phase_1 /\ run_phase_2
    /\ requested_workers = 1 /\ asr_cap = {}
    /\ output_files = [k \in Titles \X Styles |-> "absent"]

SaveSpec == SaveInit /\ [][RefineNext]_vars

MaxTasks == Cardinality(Titles) * MaxStyles

InsideRefine(t) == t \in DOMAIN tpc /\ tpc[t] \in {"load", "llm"}
WaitingForSlot(t) == t \in DOMAIN tpc /\ tpc[t] = "waiting"

\* C5: the number of tasks inside the refine step never exceeds
\* max_workers_async, and every task waiting for a slot eventually gets one:
\* a task stops waiting only by getting a slot, and eventually no task waits.
C5_BoundedAndLive ==
    /\ [](Cardinality({t \in 1..MaxTasks : InsideRefine(t)}) <= max_workers_async)
    /\ [][\A t \in 1..MaxTasks :
             WaitingForSlot(t) => (WaitingForSlot(t)' \/ InsideRefine(t)')]_vars
    /\ <>[](\A t \in 1..MaxTasks : ~WaitingForSlot(t))

C5_Witness ==
    /\ \E t \in 1..MaxTasks : WaitingForSlot(t)
    /\ Cardinality({t \in 1..MaxTasks : InsideRefine(t)}) = max_workers_async
    /\ max_workers_async >= 2

\* C6: if the stop is requested while some tasks wait for a slot, every task
\* that had no slot then ends cancelled without acquiring the semaphore and
\* without an LLM call, and every task that held a slot ends with success or
\* failure.
C6_SlotlessTasksCancelled ==
    (\E t \in DOMAIN tpc_at_stop : tpc_at_stop[t] = "waiting") =>
        \A t \in DOMAIN tpc_at_stop :
            IF tpc_at_stop[t] \in {"new", "waiting"}
            THEN /\ tpc[t] \in {"new", "waiting", "done"}
                 /\ t \notin llm_calls
                 /\ tpc[t] = "done" => tresult[t] = "cancelled"
            ELSE tpc[t] = "done" => tresult[t] \in {"success", "failure"}

\* C7: once the stop flag is set, no acquisition job that has not begun
\* executing in a worker begins executing afterwards.
C7_NoStartAfterStop == began_after_stop = {}

\* C8: with neither phase selected create_flow_for_phases raises and no
\* stage runs; with any other combination a flow is returned.
C8_NeitherPhaseRaises ==
    runner_pc # "init" =>
        IF ~run_phase_1 /\ ~run_phase_2
        THEN runner_pc = "error" /\ topology = "none" /\ curr = "none" /\ trace = <<>>
        ELSE topology \in {"full", "phase1", "phase2"}

C8_Witness ==
    /\ ~run_phase_1 /\ ~run_phase_2
    /\ runner_pc = "error"

IsPrefix(s, r) == Len(s) <= Len(r) /\ \A i \in 1..Len(s) : s[i] = r[i]

\* the stage sequences of the full topology: only the coordinators are optional
FullRuns ==
    {<<"InputExpansion", "ParallelAcquisition", "RefinementTaskCreator",
       "AsyncRefinement", "TempFileCleanup", "FlowCompletion">>,
     <<"InputExpansion", "RefinementTaskCreator",
       "AsyncRefinement", "TempFileCleanup", "FlowCompletion">>,
     <<"InputExpansion", "ParallelAcquisition", "RefinementTaskCreator",
       "TempFileCleanup", "FlowCompletion">>,
     <<"InputExpansion", "RefinementTaskCreator",
       "TempFileCleanup", "FlowCompletion">>}

\* C9: in the full topology the executed stages are, in order and at most
\* once each, Source Enumerator, Acquisition Coordinator, Task Builder,
\* Refinement Coordinator, Cleanup, Completion; only the coordinators can
\* be skipped; a run that does not raise ends with Cleanup, Completion.
C9_FullTopologyOrder ==
    topology = "full" =>
        /\ \E r \in FullRuns : IsPrefix(trace, r)
        /\ runner_pc = "done" => trace \in FullRuns

C9_Witness ==
    /\ topology = "full"
    /\ runner_pc = "done"
    /\ Len(trace) = 4

Count(s, x) == Cardinality({i \in DOMAIN s : s[i] = x})

\* C10: phase-1-only never runs the task builder or the refinement
\* coordinator, phase-2-only never runs the enumerator or the acquisition
\* coordinator; a run that does not raise reaches Completion exactly once,
\* as its last stage.
C10_SinglePhaseTopologies ==
    /\ topology = "phase1" =>
          Range(trace) \cap {"RefinementTaskCreator", "AsyncRefinement"} = {}
    /\ topology = "phase2" =>
          Range(trace) \cap {"InputExpansion", "ParallelAcquisition"} = {}
    /\ (topology \in {"phase1", "phase2"} /\ runner_pc = "done") =>
          /\ trace # <<>>
          /\ trace[Len(trace)] = "FlowCompletion"
          /\ Count(trace, "FlowCompletion") = 1

C10_Witness ==
    /\ topology = "phase1"
    /\ runner_pc = "done"
    /\ trace = <<"InputExpansion", "FlowCompletion">>

\* the three-way equivalence of an acquisition result's fields
ResultWellFormed(r) ==
    /\ r.status \in {"success", "failure"}
    /\ (r.status = "success") <=> (r.transcript_file # "none")
    /\ (r.status = "success") <=> (r.error = "none")

\* C11: every acquisition result has status success iff transcript_file is
\* present iff error is absent, and a job whose raw text is None or empty
\* yields failure, never success.
C11_ResultWellFormed ==
    /\ \A t \in Titles :
          /\ results[t] # NoResult => ResultWellFormed(results[t])
          /\ phase_1_results[t] # NoResult => ResultWellFormed(phase_1_results[t])
    /\ \A j \in DOMAIN outcome :
          (fstate[j] = "FINISHED" /\ outcome[j] = "notext")
             => /\ RealResult(j).status = "failure"
                /\ RealResult(j).transcript_file = "none"

C11_Witness ==
    /\ acq_pc = "pool"
    /\ DistinctTitles
    /\ \E j \in DOMAIN outcome :
          /\ outcome[j] = "notext"
          /\ results[video_sources_queue[j]].status = "failure"
    /\ \E j \in DOMAIN outcome :
          /\ outcome[j] = "text"
          /\ results[video_sources_queue[j]].status = "success"

\* gather has returned in exec of the refinement coordinator
RefGathered ==
    /\ curr = "AsyncRefinement" /\ step = "post"
    /\ DOMAIN tresult # {}

\* C12: an exception while loading, refining or saving one task gives that
\* task a failure result, the refinement coordinator does not raise, and
\* every other task ends with the result of its own course: success when
\* it was refined and saved, cancelled when it never began.
C12_TaskFailureIsolated ==
    /\ curr = "AsyncRefinement" => runner_pc = "flow"
    /\ \A t \in DOMAIN tresult :
          /\ t \in raised => tresult[t] = "failure"
          /\ (tpc[t] = "done" /\ t \notin raised) =>
                tresult[t] = IF t \in llm_calls THEN "success" ELSE "cancelled"
    /\ RefGathered => \A t \in DOMAIN tresult : tpc[t] = "done"

C12_Witness ==
    /\ RefGathered
    /\ ~stop_requested
    /\ Cardinality(raised) = 1
    /\ \E t \in DOMAIN tresult : t \notin raised /\ tresult[t] = "success"

\* C13: a task's result is success only when its output file has been
\* written completely; a task that fails at load (it raised before its LLM
\* call) has no output file, and the step in which the refine call raises
\* writes nothing.
C13_SuccessAfterWrite ==
    /\ [](\A t \in DOMAIN tresult :
            /\ tresult[t] = "success" => output_files[TaskKey(t)] = "complete"
            /\ (t \in raised /\ t \notin llm_calls) =>
                    output_files[TaskKey(t)] = "absent")
    /\ [][\A t \in DOMAIN tresult :
            TaskRefine(t, "refine_raised") =>
                /\ output_files' = output_files
                /\ tresult'[t] = "failure"]_vars

C13_Witness ==
    /\ RefGathered
    /\ \E t \in DOMAIN tresult :
          tresult[t] = "success" /\ output_files[TaskKey(t)] = "complete"
    /\ \E t \in DOMAIN tresult :
          /\ t \in raised /\ t \in llm_calls
          /\ output_files[TaskKey(t)] = "absent"
    /\ \E t \in DOMAIN tresult :
          /\ t \in raised /\ t \notin llm_calls
          /\ output_files[TaskKey(t)] = "absent"

(* ==================== data path: titles, files, tasks ==================== *)
(* Strings are sequences of one-character strings, so that the name         *)
(* conversions are computed character by character as the code does.        *)

LowerSeq == <<"a", "b", "c", "d", "e", "f", "g", "h", "i", "j", "k", "l", "m",
              "n", "o", "p", "q", "r", "s", "t", "u", "v", "w", "x", "y", "z">>
UpperSeq == <<"A", "B", "C", "D", "E", "F", "G", "H", "I", "J", "K", "L", "M",
              "N", "O", "P", "Q", "R", "S", "T", "U", "V", "W", "X", "Y", "Z">>
DigitChars == {"0", "1", "2", "3", "4", "5", "6", "7", "8", "9"}

\* \w of the regular expressions: letters, digits and the underscore
WordChars == Range(LowerSeq) \cup Range(UpperSeq) \cup DigitChars \cup {"_"}

\* the class [<>:"/\\|?*] of clean_filename
InvalidChars == {"<", ">", ":", "\"", "/", "\\", "|", "?", "*"}

\* str.upper on one character
UpperChar(c) ==
    IF c \in Range(LowerSeq)
    THEN UpperSeq[CHOOSE i \in 1..Len(LowerSeq) : LowerSeq[i] = c]
    ELSE c

\* str.lstrip(chars) and str.rstrip(chars)
RECURSIVE LStrip(_, _)
LStrip(s, chars) ==
    IF s # <<>> /\ Head(s) \in chars THEN LStrip(Tail(s), chars) ELSE s

RECURSIVE RStrip(_, _)
RStrip(s, chars) ==
    IF s # <<>> /\ s[Len(s)] \in chars
    THEN RStrip(SubSeq(s, 1, Len(s) - 1), chars)
    ELSE s

\* re.sub(r'\s+', ' ', s): every run of white space becomes one space
CollapseSpaces(s) ==
    IF s = <<>> THEN <<>>
    ELSE LET marked == [i \in 1..Len(s) |->
                          [char |-> s[i],
                           in_run |-> s[i] = " " /\ i > 1 /\ s[i - 1] = " "]]
             FirstOfRun(m) == ~m.in_run
             kept == SelectSeq(marked, FirstOfRun)
         IN [i \in 1..Len(kept) |-> kept[i].char]

\* the characters re.sub(r'[^\w\s\-_\.]', '', s) keeps
KeptChar(c) == c \in WordChars \cup {" ", "-", "."}

Unnamed == <<"u", "n", "n", "a", "m", "e", "d">>
FileSuffix == <<"_", "f", "i", "l", "e">>

\* the Windows device names clean_filename avoids
ReservedNames ==
    {<<"C", "O", "N">>, <<"P", "R", "N">>, <<"A", "U", "X">>, <<"N", "U", "L">>}
      \cup {<<"C", "O", "M", d>> : d \in DigitChars \ {"0"}}
      \cup {<<"L", "P", "T", d>> : d \in DigitChars \ {"0"}}

\* longest name clean_filename returns
SafeTitleLimit == 80

\* clean_filename: invalid characters become "_", other unsafe characters are
\* dropped, white space is normalised, dots and spaces are stripped from the
\* ends, an empty or reserved name is replaced, a long name is cut
clean_filename(filename) ==
    IF filename = <<>> THEN Unnamed
    ELSE
      LET replaced == [i \in 1..Len(filename) |->
                         IF filename[i] \in InvalidChars THEN "_" ELSE filename[i]]
          kept == SelectSeq(replaced, KeptChar)
          normal == RStrip(LStrip(CollapseSpaces(kept), {" "}), {" "})
          cleaned == RStrip(LStrip(normal, {".", " "}), {".", " "})
      IN IF cleaned = <<>> THEN Unnamed
         ELSE
           LET named == IF [i \in 1..Len(cleaned) |-> UpperChar(cleaned[i])]
                              \in ReservedNames
                        THEN cleaned \o FileSuffix
                        ELSE cleaned
           IN IF Len(named) > SafeTitleLimit
              THEN RStrip(SubSeq(named, 1, SafeTitleLimit), {" "})
              ELSE named

RawTranscriptSuffix ==
    <<"_", "r", "a", "w", "_", "t", "r", "a", "n", "s", "c", "r", "i", "p", "t">>

\* save_raw_transcript: the stem of the file it writes for a title
save_raw_transcript(video_title) == clean_filename(video_title) \o RawTranscriptSuffix

\* str.replace(pat, ""): every occurrence of pat is removed, left to right
RECURSIVE RemoveAll(_, _)
RemoveAll(s, pat) ==
    LET starts == {i \in 1..(Len(s) - Len(pat) + 1) :
                      SubSeq(s, i, i + Len(pat) - 1) = pat}
    IN IF starts = {} THEN s
       ELSE LET i == CHOOSE b \in starts : \A c \in starts : b <= c
            IN SubSeq(s, 1, i - 1)
                 \o RemoveAll(SubSeq(s, i + Len(pat), Len(s)), pat)

\* create_refinement_tasks: the video_title it derives from a transcript file
VideoTitleOf(transcript_file) == RemoveAll(transcript_file, RawTranscriptSuffix)

\* re.sub(r"[^\w\-]+", "_", style_name)
RECURSIVE SafeStyleName(_)
SafeStyleName(s) ==
    IF s = <<>> THEN <<>>
    ELSE IF Head(s) \in WordChars \cup {"-"}
         THEN <<Head(s)>> \o SafeStyleName(Tail(s))
         ELSE <<"_">> \o SafeStyleName(
                  LStrip(Tail(s), {c \in Range(Tail(s)) : c \notin WordChars \cup {"-"}}))

\* f"{video_title} [{safe_style_name}].md" below output_dir
OutputFile(output_dir, video_title, style_name) ==
    <<output_dir,
      video_title \o <<" ", "[">> \o SafeStyleName(style_name)
                  \o <<"]", ".", "m", "d">>>>

\* f"{task['video_title']}_{task['style_name']}"
TaskId(video_title, style_name) == video_title \o <<"_">> \o style_name

(* ---- insertion-ordered dicts: sequences of [key, value] ---- *)
DictKeys(d) == {d[i].key : i \in DOMAIN d}

DictGet(d, k, default) ==
    IF k \in DictKeys(d)
    THEN d[CHOOSE i \in DOMAIN d : d[i].key = k].value
    ELSE default

\* d[k] = v: a new key goes to the end, an old key keeps its place
DictSet(d, k, v) ==
    IF k \in DictKeys(d)
    THEN [i \in DOMAIN d |-> IF d[i].key = k THEN [key |-> k, value |-> v] ELSE d[i]]
    ELSE Append(d, [key |-> k, value |-> v])

(* ---- sorted(): strings compared character by character ---- *)
AsciiOrder ==
    <<" ", "!", "\"", "&", "(", ")", "*", "-", ".", "/",
      "0", "1", "2", "3", "4", "5", "6", "7", "8", "9", ":", "<", ">", "?">>
      \o UpperSeq \o <<"[", "\\", "]", "_">> \o LowerSeq \o <<"|">>

CharCode(c) == CHOOSE i \in 1..Len(AsciiOrder) : AsciiOrder[i] = c

RECURSIVE StrLess(_, _)
StrLess(s, t) ==
    IF t = <<>> THEN FALSE
    ELSE IF s = <<>> THEN TRUE
    ELSE IF Head(s) = Head(t) THEN StrLess(Tail(s), Tail(t))
    ELSE CharCode(Head(s)) < CharCode(Head(t))

RECURSIVE Sorted(_)
Sorted(S) ==
    IF S = {} THEN <<>>
    ELSE LET m == CHOOSE x \in S : \A y \in S \ {x} : StrLess(x, y)
         IN <<m>> \o Sorted(S \ {m})

\* discover_raw_transcript_files: the sorted *_raw_transcript.txt files
discover_raw_transcript_files(dir) == Sorted(dir)

(* ---- inputs of a data-path run ---- *)
\* titles the input handlers can return: "a", "a:", "a?" (the last two have
\* the same safe title) and "a_raw_transcript"
BuildTitles ==
    {<<"a">>, <<"a", ":">>, <<"a", "?">>, <<"a">> \o RawTranscriptSuffix}

StyleSummary == <<"S", "u", "m", "m", "a", "r", "y">>
StyleQA == <<"Q", "&", "A", " ", "G", "e", "n", "e", "r", "a", "t", "i", "o", "n">>

\* keys of text_refinement_prompts (two of the seven)
text_refinement_prompts == {StyleSummary, StyleQA}

\* selected_styles_data of the GUI
GlobalStyleChoices == {<<>>, <<StyleSummary, StyleQA>>}

\* a parsed CSV row without its input: <<>> and "" stand for None
CsvRows ==
    {[styles |-> <<>>, language |-> "", output_subdir |-> ""],
     [styles |-> <<StyleQA>>, language |-> "", output_subdir |-> ""],
     [styles |-> <<>>, language |-> "fr", output_subdir |-> "sub"]}

\* stems of transcript files an earlier run can have left on disk
ExistingStems == {save_raw_transcript(<<"a">>), save_raw_transcript(<<"a", ":">>)}

\* expansions of the inputs: single input -> job_id 0; CSV -> the rows are
\* expanded in order, so job_id never decreases along the list
Expansions(rows) ==
    UNION {{e \in [1..n -> [original_title : BuildTitles, job_id : 0..rows]] :
              /\ \A i \in 1..n : IF rows = 0 THEN e[i].job_id = 0
                                 ELSE e[i].job_id >= 1
              /\ \A i \in 1..(n - 1) : e[i].job_id <= e[i + 1].job_id}
           : n \in 0..MaxBuildJobs}

(* ---- the run, one job and one task at a time (one worker, one slot) ---- *)
\* variables a data-path run never writes
buildConst == <<run_phase_1, run_phase_2, requested_workers, asr_cap,
                max_workers_processes, max_workers_async, selected_styles,
                phase2_skip_existing, phase2_max_concurrency,
                stop_requested, runner_pc, flowVars, acq_pc, fstate, outcome,
                completed, stop_acq_pc, fstate_at_stop, began_after_stop,
                ref_pc, tpc, sem_value, sem_waiters, tpc_at_stop, llm_calls,
                raised, csv_file, csv_jobs, expanded, resume_mode, fnVars>>

\* the state after _initialize_shared_memory for a run with phase 2 selected:
\* the CSV rows, what the inputs expand to, the resume flag and the files
\* already in intermediate_dir are the inputs
BuildInit ==
    /\ run_phase_1 \in BOOLEAN
    /\ run_phase_2 = TRUE
    /\ resume_mode \in BOOLEAN
    /\ selected_styles \in GlobalStyleChoices
    /\ phase2_skip_existing = FALSE
    /\ csv_file = {}      \* the rows are the input, not the file they came from
    /\ csv_jobs \in UNION {[1..n -> CsvRows] : n \in 0..MaxRows}
    /\ expanded \in (IF run_phase_1 THEN Expansions(Len(csv_jobs)) ELSE {<<>>})
    /\ intermediate_dir \in (IF resume_mode \/ ~run_phase_1
                             THEN SUBSET ExistingStems ELSE {{}})
    /\ build_pc = IF run_phase_1 THEN "expand" ELSE "tasks"
    /\ requested_workers = 1 /\ asr_cap = {}
    /\ max_workers_processes = 1 /\ max_workers_async = 1
    /\ phase2_max_concurrency = {1}
    /\ stop_requested = FALSE
    /\ runner_pc = "flow"
    /\ topology = "none" /\ curr = "none" /\ step = "prep" /\ trace = <<>>
    /\ prep_res = {} /\ exec_res = <<>>
    /\ video_sources_queue = <<>>
    /\ phase_1_results = <<>>
    /\ raw_transcript_files = <<>>
    /\ transcript_file_to_job_id = <<>>
    /\ refinement_tasks = <<>>
    /\ phase_2_results = <<>>
    /\ output_files = <<>>
    /\ acq_pc = "idle" /\ fstate = <<>> /\ outcome = <<>> /\ yielded = {}
    /\ results = <<>> /\ completed = 0
    /\ stop_acq_pc = "never" /\ fstate_at_stop = <<>> /\ began_after_stop = {}
    /\ ref_pc = "idle" /\ tpc = <<>> /\ tresult = <<>>
    /\ sem_value = 0 /\ sem_waiters = <<>> /\ tpc_at_stop = <<>>
    /\ llm_calls = {} /\ raised = {}
    /\ FnIdle

\* faulty variant: in resume mode any existing transcript skips every job
SkipResumeOnAnyExisting(safe_title, existing_titles, resume) ==
    resume /\ existing_titles # {}

\* _should_skip_resume
_should_skip_resume(safe_title, existing_titles, resume) ==
    resume /\ safe_title \in existing_titles

\* InputExpansionNode.prep: the safe titles of the transcript files on disk
\* (the part of the stem before a final "_raw_transcript")
ExistingTitles(dir) ==
    {SubSeq(f, 1, Len(f) - Len(RawTranscriptSuffix)) :
        f \in {g \in dir :
                 /\ Len(g) >= Len(RawTranscriptSuffix)
                 /\ SubSeq(g, Len(g) - Len(RawTranscriptSuffix) + 1, Len(g))
                       = RawTranscriptSuffix}}

\* InputExpansionNode: prep, exec and post; every expanded item that is not
\* skipped is appended to the queue with the job_id of its input
BuildExpand ==
    /\ build_pc = "expand"
    /\ LET existing_titles == IF resume_mode THEN ExistingTitles(intermediate_dir)
                              ELSE {}
           Kept(e) == ~_should_skip_resume(clean_filename(e.original_title),
                                           existing_titles, resume_mode)
           queue == SelectSeq(expanded, Kept)
       IN /\ video_sources_queue' = queue
          /\ build_pc' = IF queue = <<>> THEN "tasks" ELSE "acquire"
    /\ UNCHANGED <<buildConst, intermediate_dir, phase_1_results,
                   raw_transcript_files, transcript_file_to_job_id,
                   refinement_tasks, phase_2_results, output_files, yielded,
                   results, tresult>>

\* the next job of the queue runs and its result is stored under its title:
\* success saves the transcript and returns its file, failure returns None
BuildAcquire(ok) ==
    /\ build_pc = "acquire"
    /\ Cardinality(yielded) < Len(video_sources_queue)
    /\ LET j == Cardinality(yielded) + 1
           job == video_sources_queue[j]
           file == save_raw_transcript(job.original_title)
           result == IF ok
                     THEN [status |-> "success", transcript_file |-> file,
                           job_id |-> job.job_id]
                     ELSE [status |-> "failure", transcript_file |-> <<>>,
                           job_id |-> job.job_id]
       IN /\ results' = DictSet(results, job.original_title, result)
          /\ intermediate_dir' = IF ok THEN intermediate_dir \cup {file}
                                 ELSE intermediate_dir
          /\ yielded' = yielded \cup {j}
    /\ UNCHANGED <<buildConst, video_sources_queue, phase_1_results,
                   raw_transcript_files, transcript_file_to_job_id,
                   refinement_tasks, phase_2_results, output_files, tresult,
                   build_pc>>

\* post of the acquisition coordinator: the loop over exec_res.values()
RECURSIVE TranscriptFiles(_)
TranscriptFiles(rs) ==
    IF rs = <<>> THEN <<>>
    ELSE LET r == Head(rs).value
         IN IF r.status = "success" /\ r.transcript_file # <<>>
            THEN <<r.transcript_file>> \o TranscriptFiles(Tail(rs))
            ELSE TranscriptFiles(Tail(rs))

RECURSIVE FileToJobId(_)
FileToJobId(rs) ==
    IF rs = <<>> THEN <<>>
    ELSE LET before == FileToJobId(SubSeq(rs, 1, Len(rs) - 1))
             r == rs[Len(rs)].value
         IN IF r.status = "success" /\ r.transcript_file # <<>>
            THEN DictSet(before, r.transcript_file, r.job_id)
            ELSE before

BuildAcquisitionPost ==
    /\ build_pc = "acquire"
    /\ Cardinality(yielded) = Len(video_sources_queue)
    /\ phase_1_results' = results
    /\ raw_transcript_files' = TranscriptFiles(results)
    /\ transcript_file_to_job_id' = FileToJobId(results)
    /\ build_pc' = "tasks"
    /\ UNCHANGED <<buildConst, video_sources_queue, intermediate_dir,
                   refinement_tasks, phase_2_results, output_files, yielded,
                   results, tresult>>

\* faulty variant: only the first style of the list is used
CreateTasksFirstStyleOnly(transcript_files, styles_data, output_dir, language) ==
    [i \in 1..(IF styles_data = <<>> THEN 0 ELSE Len(transcript_files)) |->
        [transcript_file |-> transcript_files[i],
         style_name |-> styles_data[1],
         output_file |-> OutputFile(output_dir, VideoTitleOf(transcript_files[i]),
                                    styles_data[1]),
         video_title |-> VideoTitleOf(transcript_files[i]),
         language |-> language]]

\* create_refinement_tasks with its output_dir and language arguments: one
\* task per (transcript file, style), file by file; language "" is no key
create_refinement_tasks_in(transcript_files, styles_data, output_dir, language) ==
    [i \in 1..(Len(transcript_files) * Len(styles_data)) |->
        LET transcript_file == transcript_files[((i - 1) \div Len(styles_data)) + 1]
            style_name == styles_data[((i - 1) % Len(styles_data)) + 1]
            video_title == VideoTitleOf(transcript_file)
        IN [transcript_file |-> transcript_file,
            style_name |-> style_name,
            output_file |-> OutputFile(output_dir, video_title, style_name),
            video_title |-> video_title,
            language |-> language]]

\* by_job of RefinementTaskCreatorNode.exec: job_id -> its transcript files,
\* a file that is not in the mapping goes to job 0
RECURSIVE ByJob(_, _)
ByJob(transcript_files, file_to_job) ==
    IF transcript_files = <<>> THEN <<>>
    ELSE LET before == ByJob(SubSeq(transcript_files, 1, Len(transcript_files) - 1),
                             file_to_job)
             tf == transcript_files[Len(transcript_files)]
             jid == DictGet(file_to_job, tf, 0)
         IN DictSet(before, jid, Append(DictGet(before, jid, <<>>), tf))

\* job_overrides.get(job_id, {}): the row of the CSV, or no overrides
NoOverrides == [styles |-> <<>>, language |-> "", output_subdir |-> ""]

JobOverrides(rows, job_id) ==
    IF job_id \in DOMAIN rows THEN rows[job_id] ELSE NoOverrides

StyleIsKnown(n) == n \in text_refinement_prompts

\* the styles of one job: its override when the row gives one, else the
\* global selection
ResolvedStyles(overrides, selected) ==
    IF overrides.styles # <<>>
    THEN SelectSeq(overrides.styles, StyleIsKnown)
    ELSE selected

\* the loop over by_job.items(): the tasks of each job that has styles
RECURSIVE BatchTasks(_, _, _)
BatchTasks(by_job, rows, selected) ==
    IF by_job = <<>> THEN <<>>
    ELSE LET overrides == JobOverrides(rows, Head(by_job).key)
             styles_data == ResolvedStyles(overrides, selected)
             job_lang == IF overrides.language # "" THEN overrides.language
                         ELSE "English"
             rest == BatchTasks(Tail(by_job), rows, selected)
         IN IF styles_data = <<>> THEN rest
            ELSE create_refinement_tasks_in(Head(by_job).value, styles_data,
                                            overrides.output_subdir, job_lang)
                   \o rest

\* RefinementTaskCreatorNode.exec
TaskCreatorExec(transcript_files, file_to_job, rows, selected) ==
    IF transcript_files = <<>> THEN <<>>
    ELSE IF file_to_job # <<>> /\ rows # <<>>
    THEN BatchTasks(ByJob(transcript_files, file_to_job), rows, selected)
    ELSE IF selected = <<>> THEN <<>>
    ELSE create_refinement_tasks_in(transcript_files, selected, "", "")

\* RefinementTaskCreatorNode.prep: the transcript files it will use
TaskCreatorFiles ==
    IF ~run_phase_1 \/ resume_mode
    THEN discover_raw_transcript_files(intermediate_dir)
    ELSE raw_transcript_files

\* RefinementTaskCreatorNode: prep, exec and post
BuildTasks ==
    /\ build_pc = "tasks"
    /\ LET tasks == TaskCreatorExec(TaskCreatorFiles, transcript_file_to_job_id,
                                    csv_jobs, selected_styles)
       IN /\ refinement_tasks' = tasks
          /\ tresult' = [t \in 1..Len(tasks) |-> "none"]
          /\ build_pc' = IF tasks = <<>> THEN "done" ELSE "refine"
    /\ UNCHANGED <<buildConst, video_sources_queue, intermediate_dir,
                   phase_1_results, raw_transcript_files,
                   transcript_file_to_job_id, phase_2_results, output_files,
                   yielded, results>>

\* save_text_to_file of every task in order: per path, the tasks that
\* wrote it
RECURSIVE WrittenFiles(_)
WrittenFiles(tasks) ==
    IF tasks = <<>> THEN <<>>
    ELSE LET n == Len(tasks)
             before == WrittenFiles(SubSeq(tasks, 1, n - 1))
         IN DictSet(before, tasks[n].output_file,
                    DictGet(before, tasks[n].output_file, {}) \cup {n})

\* results[result["task_id"]] = result for the gathered results, in order
RECURSIVE ResultsById(_, _)
ResultsById(tasks, statuses) ==
    IF tasks = <<>> THEN <<>>
    ELSE LET n == Len(tasks)
             before == ResultsById(SubSeq(tasks, 1, n - 1), statuses)
         IN DictSet(before, TaskId(tasks[n].video_title, tasks[n].style_name),
                    statuses[n])

\* AsyncRefinementCoordinatorNode, exec and post, in a run where no task
\* raises: every task saves its output file and returns success, the results
\* dict is built from the gathered results and stored
BuildRefinement ==
    /\ build_pc = "refine"
    /\ tresult' = [t \in DOMAIN tresult |-> RefineStatus("saved")]
    /\ output_files' = WrittenFiles(refinement_tasks)
    /\ phase_2_results' = ResultsById(refinement_tasks, tresult')
    /\ build_pc' = "done"
    /\ UNCHANGED <<buildConst, video_sources_queue, intermediate_dir,
                   phase_1_results, raw_transcript_files,
                   transcript_file_to_job_id, refinement_tasks, yielded,
                   results>>

BuildNext ==
    \/ BuildExpand
    \/ \E ok \in BOOLEAN : BuildAcquire(ok)
    \/ BuildAcquisitionPost
    \/ BuildTasks
    \/ BuildRefinement

BuildSpec == BuildInit /\ [][BuildNext]_vars

(* ------------------------- data-path properties ------------------------- *)
\* the refinement coordinator has finished and stored its results
RefinementStored == build_pc = "done" /\ refinement_tasks # <<>>

TaskPair(t) == <<refinement_tasks[t].video_title, refinement_tasks[t].style_name>>

\* C14: tasks with distinct (video_title, style_name) pairs have distinct
\* result keys and output paths, and once the refinement coordinator has
\* finished phase_2_results holds exactly one result per task and every
\* output file was written by one task only.
C14_UniqueTasks ==
    /\ \A t, u \in DOMAIN refinement_tasks :
          TaskPair(t) # TaskPair(u) =>
             /\ TaskId(refinement_tasks[t].video_title, refinement_tasks[t].style_name)
                  # TaskId(refinement_tasks[u].video_title, refinement_tasks[u].style_name)
             /\ refinement_tasks[t].output_file # refinement_tasks[u].output_file
    /\ RefinementStored =>
          /\ Len(phase_2_results) = Len(refinement_tasks)
          /\ \A i \in DOMAIN output_files : Cardinality(output_files[i].value) = 1

\* the task creator has run
TasksBuilt == build_pc \in {"refine", "done"}

\* no row of the CSV overrides anything (or there is no CSV)
NoJobOverrides == \A r \in DOMAIN csv_jobs : csv_jobs[r] = NoOverrides

\* C15: with T transcript files, S global styles and no per-job overrides
\* the task creator produces exactly T*S tasks, one for every (transcript,
\* style) pair, each with output_file {output_dir}/{video_title}
\* [{safe_style_name}].md, and building again gives the same tasks.
C15_TasksAreCrossProduct ==
    (TasksBuilt /\ NoJobOverrides) =>
        LET files == TaskCreatorFiles
            T == Len(files)
            S == Len(selected_styles)
        IN /\ Len(refinement_tasks) = T * S
           /\ \A i \in 1..T, k \in 1..S :
                 Cardinality({t \in DOMAIN refinement_tasks :
                                /\ refinement_tasks[t].transcript_file = files[i]
                                /\ refinement_tasks[t].style_name = selected_styles[k]})
                   = Cardinality({j \in 1..T : files[j] = files[i]})
           /\ \A t \in DOMAIN refinement_tasks :
                 refinement_tasks[t].output_file =
                    <<"", refinement_tasks[t].video_title \o <<" ", "[">>
                            \o SafeStyleName(refinement_tasks[t].style_name)
                            \o <<"]", ".", "m", "d">>>>
           /\ refinement_tasks = TaskCreatorExec(files, transcript_file_to_job_id,
                                                 csv_jobs, selected_styles)

C15_Witness ==
    /\ TasksBuilt
    /\ NoJobOverrides
    /\ Len(TaskCreatorFiles) = 2
    /\ TaskCreatorFiles[1] # TaskCreatorFiles[2]
    /\ Len(selected_styles) = 2
    /\ Len(refinement_tasks) = 4

\* the result stored for queue entry j
StoredResult(j) ==
    DictGet(phase_1_results, video_sources_queue[j].original_title,
            [status |-> "absent", transcript_file |-> <<>>, job_id |-> 0])

\* the tasks built from the transcript of queue entry j follow row job_id
\* of the CSV: its styles, language and sub-directory where it gives them,
\* the global ones where it does not
FollowsOwnRow(j) ==
    LET row == csv_jobs[video_sources_queue[j].job_id]
        styles == IF row.styles # <<>> THEN row.styles ELSE selected_styles
        mine == {t \in DOMAIN refinement_tasks :
                    refinement_tasks[t].transcript_file
                       = StoredResult(j).transcript_file}
    IN /\ {refinement_tasks[t].style_name : t \in mine} = Range(styles)
       /\ \A t \in mine :
             /\ refinement_tasks[t].language =
                   (IF row.language # "" THEN row.language ELSE "English")
             /\ refinement_tasks[t].output_file[1] = row.output_subdir

\* C16: in a batch run the tasks built from the transcript acquired for a
\* job use that job's override styles, language and output sub-directory
\* where its row gives them and the global selection otherwise; a job with
\* no resolved style has no task while the other jobs keep theirs.
C16_JobOverridesApplied ==
    (TasksBuilt /\ csv_jobs # <<>>) =>
        \A j \in DOMAIN video_sources_queue :
            StoredResult(j).status = "success" => FollowsOwnRow(j)

\* RefinementTaskCreatorNode.exec: the job_id under which the overrides of
\* transcript tf are looked up
JobIdUsed(tf) == DictGet(transcript_file_to_job_id, tf, 0)

\* the enumerated items whose transcript is tf: acquired in this run, or
\* skipped by resume because the transcript was already on disk
Producers(tf) ==
    {i \in DOMAIN expanded :
        /\ save_raw_transcript(expanded[i].original_title) = tf
        /\ \/ _should_skip_resume(clean_filename(expanded[i].original_title),
                                  {SubSeq(tf, 1, Len(tf) - Len(RawTranscriptSuffix))},
                                  resume_mode)
              /\ \A j \in DOMAIN video_sources_queue :
                    video_sources_queue[j].original_title
                       # expanded[i].original_title
           \/ \E j \in DOMAIN video_sources_queue :
                 /\ video_sources_queue[j] = expanded[i]
                 /\ StoredResult(j).status = "success"}

\* C17: in a batch run the job_id used to resolve the overrides of a
\* transcript that becomes tasks is the job_id given at enumeration to the
\* job that produced it, in resume mode and for equal safe titles too.
C17_JobIdStable ==
    (TasksBuilt /\ csv_jobs # <<>>) =>
        \A t \in DOMAIN refinement_tasks :
            \A i \in Producers(refinement_tasks[t].transcript_file) :
                JobIdUsed(refinement_tasks[t].transcript_file)
                   = expanded[i].job_id

\* the positions of the expanded list whose safe title has no transcript
\* file in the directory (all of them when resume mode is off)
KeptPositions ==
    {i \in DOMAIN expanded :
        ~(/\ resume_mode
          /\ clean_filename(expanded[i].original_title) \o RawTranscriptSuffix
                \in intermediate_dir)}

\* C19: input expansion leaves a job out of video_sources_queue exactly
\* when resume mode is on and the safe form of its title is the safe title
\* of an existing transcript file; the jobs kept are in their original
\* order, each with the job_id it was enumerated with.
C19_ResumeSkip ==
    [][build_pc = "expand" =>
         /\ Len(video_sources_queue') = Cardinality(KeptPositions)
         /\ \A i \in KeptPositions :
               video_sources_queue'[Cardinality({m \in KeptPositions : m <= i})]
                  = expanded[i]
         /\ (~resume_mode => video_sources_queue' = expanded)]_vars

C19_Witness ==
    /\ resume_mode
    /\ build_pc = "acquire"
    /\ yielded = {}
    /\ Len(expanded) = 2
    /\ Len(video_sources_queue) = 1
    /\ video_sources_queue[1] = expanded[2]
    /\ expanded[1].job_id = 1
    /\ expanded[2].job_id = 2
    /\ expanded[1].original_title = <<"a", ":">>

(* ================================================================== *)
(* Range slicing, checked on its own: the list, start_index and       *)
(* end_index are the inputs                                           *)
(* ================================================================== *)
pipelineVars == <<paramVars, stop_requested, runner_pc, flowVars, sharedVars,
                  acqVars, refVars, batchVars>>

\* no run in progress
PipelineIdle ==
    /\ run_phase_1 = FALSE /\ run_phase_2 = FALSE
    /\ requested_workers = 1 /\ asr_cap = {}
    /\ max_workers_processes = 1 /\ max_workers_async = 1
    /\ phase2_max_concurrency = {1}
    /\ selected_styles = <<>>
    /\ phase2_skip_existing = FALSE
    /\ stop_requested = FALSE
    /\ runner_pc = "init"
    /\ topology = "none" /\ curr = "none" /\ step = "prep" /\ trace = <<>>
    /\ prep_res = {} /\ exec_res = <<>>
    /\ video_sources_queue = <<>>
    /\ phase_1_results = <<>>
    /\ raw_transcript_files = <<>>
    /\ refinement_tasks = <<>>
    /\ phase_2_results = <<>>
    /\ acq_pc = "idle" /\ fstate = <<>> /\ outcome = <<>> /\ yielded = {}
    /\ results = <<>> /\ completed = 0
    /\ stop_acq_pc = "never" /\ fstate_at_stop = <<>> /\ began_after_stop = {}
    /\ ref_pc = "idle" /\ tpc = <<>> /\ tresult = <<>>
    /\ sem_value = 0 /\ sem_waiters = <<>> /\ tpc_at_stop = <<>>
    /\ llm_calls = {} /\ raised = {} /\ output_files = <<>>
    /\ csv_file = {} /\ csv_jobs = <<>> /\ expanded = <<>>
    /\ resume_mode = FALSE
    /\ intermediate_dir = {} /\ transcript_file_to_job_id = <<>>
    /\ build_pc = "off"

\* a Python slice seq[lo:hi]: negative bounds count from the end, both are
\* clipped to the length
PySlice(seq, lo, hi) ==
    LET n == Len(seq)
        Clip(i) == IF i < 0 THEN (IF n + i < 0 THEN 0 ELSE n + i)
                   ELSE (IF i > n THEN n ELSE i)
    IN IF Clip(lo) < Clip(hi) THEN SubSeq(seq, Clip(lo) + 1, Clip(hi))
       ELSE <<>>

\* faulty variant: start_index taken as a 0-based position
ApplyRangeZeroBased(list, start, end) ==
    IF end > 0 THEN PySlice(list, start, end)
    ELSE PySlice(list, start, Len(list))

\* _apply_range
_apply_range(list, start, end) ==
    IF end > 0 THEN PySlice(list, start - 1, end)
    ELSE PySlice(list, start - 1, Len(list))

\* feed entries: two with an audio enclosure, one without
FeedEntries == {"ep1", "ep2", "post"}
HasAudio(entry) == entry # "post"

\* parse_podcast_rss, index filtering: the entries the loop visits
PodcastRange(entries, start, end) ==
    LET total_episodes == Len(entries)
        end0 == IF end = 0 THEN total_episodes ELSE end
        start1 == IF start < 1 THEN 1 ELSE start
        end1 == IF end0 > total_episodes THEN total_episodes ELSE end0
    IN IF entries = <<>> \/ start1 > end1 THEN <<>>
       ELSE [k \in 1..(end1 - start1 + 1) |-> entries[start1 - 1 + k]]

\* parse_podcast_rss: of the entries visited, those with an audio URL
parse_podcast_rss(entries, start, end) ==
    SelectSeq(PodcastRange(entries, start, end), HasAudio)

\* the inputs: start_index >= 1 and end_index >= 0 (validate_inputs rejects
\* the rest), a list of up to MaxItems items
RangeInit ==
    /\ PipelineIdle
    /\ fn_pc = "range"
    /\ items \in UNION {[1..n -> FeedEntries] : n \in 0..MaxItems}
    /\ start_index \in 1..(MaxItems + 1)
    /\ end_index \in 0..(MaxItems + 1)
    /\ sliced = <<>>
    /\ episodes = <<>>
    /\ ChunkIdle
    /\ UnitIdle

\* InputExpansionNode.exec on a playlist or a folder
ApplyRange ==
    /\ fn_pc = "range"
    /\ sliced' = _apply_range(items, start_index, end_index)
    /\ fn_pc' = "applied"
    /\ UNCHANGED <<pipelineVars, chunkVars, unitVars, items, start_index, end_index,
                   episodes>>

\* InputExpansionNode.exec on a podcast feed
ParsePodcastRss ==
    /\ fn_pc = "range"
    /\ sliced' = PodcastRange(items, start_index, end_index)
    /\ episodes' = parse_podcast_rss(items, start_index, end_index)
    /\ fn_pc' = "parsed"
    /\ UNCHANGED <<pipelineVars, chunkVars, unitVars, items, start_index,
                   end_index>>

RangeNext == ApplyRange \/ ParsePodcastRss

RangeSpec == RangeInit /\ [][RangeNext]_vars

\* the last 1-based position the range reaches
RangeLast == IF end_index = 0 \/ end_index > Len(items) THEN Len(items)
             ELSE end_index

\* C18: range slicing returns, in order, exactly the items at the 1-based
\* positions start_index..end_index (clipped to the length), or from
\* start_index to the end when end_index is 0; start 1 and end 1 give the
\* first item alone; a start beyond the list or beyond a positive end
\* gives nothing.
C18_RangeSlice ==
    fn_pc \in {"applied", "parsed"} =>
        /\ Len(sliced) = (IF RangeLast < start_index THEN 0
                          ELSE RangeLast - start_index + 1)
        /\ \A k \in 1..Len(sliced) : sliced[k] = items[start_index + k - 1]
        /\ (start_index = 1 /\ end_index = 1 /\ items # <<>>)
              => sliced = <<items[1]>>
        /\ (start_index > Len(items)
              \/ (end_index > 0 /\ start_index > end_index))
              => sliced = <<>>

C18_Witness ==
    /\ fn_pc = "applied"
    /\ Len(items) = 3
    /\ start_index = 2
    /\ end_index = 3
    /\ sliced = <<items[2], items[3]>>
    /\ items[1] # items[2]

(* ================================================================== *)
(* Chunked refinement of one transcript, checked on its own: the text,*)
(* the style template and chunk_size are the inputs. Texts are        *)
(* sequences of characters; a template is a sequence of tokens.       *)
(* ================================================================== *)
TextChars == {"w", " ", "\n"}
Whitespace == {" ", "\n"}
ParagraphBreak == <<"\n", "\n">>
LanguageToken == "[Language]"
TranscriptToken == "[full_transcript_text]"
ContinuationNote == <<"\n", "\n", "[continuation]", "\n", "\n">>

\* str.split(): the number of maximal runs of non-whitespace characters
WordCount(text) ==
    Cardinality({i \in DOMAIN text :
                    /\ text[i] \notin Whitespace
                    /\ (i = 1 \/ text[i - 1] \in Whitespace)})

\* text.split("\n\n")
RECURSIVE SplitParagraphs(_)
SplitParagraphs(text) ==
    LET breaks == {i \in 1..(Len(text) - 1) :
                      SubSeq(text, i, i + 1) = ParagraphBreak}
    IN IF breaks = {} THEN <<text>>
       ELSE LET i == CHOOSE b \in breaks : \A c \in breaks : b <= c
            IN <<SubSeq(text, 1, i - 1)>>
                 \o SplitParagraphs(SubSeq(text, i + 2, Len(text)))

\* sep.join(parts)
RECURSIVE JoinWith(_, _)
JoinWith(parts, sep) ==
    IF parts = <<>> THEN <<>>
    ELSE IF Len(parts) = 1 THEN parts[1]
    ELSE parts[1] \o sep \o JoinWith(Tail(parts), sep)

\* template.replace(token, by)
RECURSIVE ReplaceToken(_, _, _)
ReplaceToken(template, token, by) ==
    IF template = <<>> THEN <<>>
    ELSE (IF Head(template) = token THEN by ELSE <<Head(template)>>)
           \o ReplaceToken(Tail(template), token, by)

\* split_text_into_chunks: the loop over the paragraphs and the last chunk
RECURSIVE ChunkLoop(_, _, _, _, _)
ChunkLoop(paragraphs, done, current_chunk, current_word_count, size) ==
    IF paragraphs = <<>>
    THEN IF current_chunk # <<>>
         THEN Append(done, JoinWith(current_chunk, ParagraphBreak))
         ELSE done
    ELSE LET paragraph == Head(paragraphs)
             paragraph_word_count == WordCount(paragraph)
         IN IF current_word_count + paragraph_word_count > size
               /\ current_chunk # <<>>
            THEN ChunkLoop(Tail(paragraphs),
                           Append(done, JoinWith(current_chunk, ParagraphBreak)),
                           <<paragraph>>, paragraph_word_count, size)
            ELSE ChunkLoop(Tail(paragraphs), done,
                           Append(current_chunk, paragraph),
                           current_word_count + paragraph_word_count, size)

\* faulty variant: the chunk still open after the last paragraph is lost
SplitDropsOpenChunk(text, size) ==
    LET all == ChunkLoop(SplitParagraphs(text), <<>>, <<>>, 0, size)
    IN SubSeq(all, 1, Len(all) - 1)

\* split_text_into_chunks
split_text_into_chunks(text, size) ==
    ChunkLoop(SplitParagraphs(text), <<>>, <<>>, 0, size)

\* the external LLM: its reply is determined by the prompt
call_llm(prompt) == <<"refined(">> \o prompt \o <<")">>

\* full_prompt of a template with [full_transcript_text]: the transcript
\* replaces the token and nothing else is replaced
\* faulty variant: [Language] is replaced as in the other styles
VerbatimPromptWithLanguage(template, text, language) ==
    ReplaceToken(ReplaceToken(template, LanguageToken, <<language>>),
                 TranscriptToken, text)

VerbatimPrompt(template, text, language) ==
    ReplaceToken(template, TranscriptToken, text)

\* faulty variant: the continuation note is put before the first chunk too
ChunkPromptAlwaysContinues(prompt_with_language, i, chunk) ==
    prompt_with_language \o ContinuationNote \o chunk

\* chunk_prompt of chunk number i (the first is number 1)
ChunkPrompt(prompt_with_language, i, chunk) ==
    IF i = 1 THEN prompt_with_language \o chunk
    ELSE prompt_with_language \o ContinuationNote \o chunk

\* refine_text_with_llm: the chunks made, the prompts of the calls started
\* and the replies received when call number fail raises (0: none does)
refine_text_with_llm(text, template, language, size, fail) ==
    LET verbatim == \E i \in DOMAIN template : template[i] = TranscriptToken
        prompt_with_language == ReplaceToken(template, LanguageToken, <<language>>)
        split == ~verbatim /\ size # 0 /\ WordCount(text) > size
        cs == IF split THEN split_text_into_chunks(text, size) ELSE <<>>
        prompts ==
            IF verbatim THEN <<VerbatimPrompt(template, text, language)>>
            ELSE IF split
                 THEN [i \in DOMAIN cs |->
                         ChunkPrompt(prompt_with_language, i, cs[i])]
                 ELSE <<prompt_with_language \o text>>
        failed == fail \in DOMAIN prompts
        started == IF failed THEN SubSeq(prompts, 1, fail) ELSE prompts
        replies == IF failed THEN [i \in 1..(fail - 1) |-> call_llm(prompts[i])]
                   ELSE [i \in DOMAIN prompts |-> call_llm(prompts[i])]
    IN [chunks |-> cs,
        prompts |-> started,
        replies |-> replies,
        result |-> IF failed THEN <<"raised">>
                   ELSE IF split THEN JoinWith(replies, ParagraphBreak)
                   ELSE replies[1]]

\* a style with [Language], the verbatim style with [full_transcript_text],
\* and a template holding both tokens
StyleTemplates == {<<"style:", LanguageToken, ":">>,
                   <<"minutes:", TranscriptToken, ":end">>,
                   <<"notes:", LanguageToken, ":", TranscriptToken, ":end">>}

ChunkInit ==
    /\ PipelineIdle
    /\ RangeIdle
    /\ UnitIdle
    /\ fn_pc = "chunk"
    /\ text_content \in UNION {[1..n -> TextChars] : n \in 0..MaxTextLen}
    /\ style_prompt_template \in StyleTemplates
    /\ chunk_size \in 1..MaxChunkSize
    /\ chunks = <<>>
    /\ llm_prompts = <<>>
    /\ refined_chunks = <<>>
    /\ refined = <<>>

\* one call of refine_text_with_llm, from async_refine_single_task
RefineText(fail) ==
    /\ fn_pc = "chunk"
    /\ LET r == refine_text_with_llm(text_content, style_prompt_template,
                                     "English", chunk_size, fail)
       IN /\ fail \in 0..Len(r.prompts)
          /\ chunks' = r.chunks
          /\ llm_prompts' = r.prompts
          /\ refined_chunks' = r.replies
          /\ refined' = r.result
          /\ fn_pc' = IF fail = 0 THEN "refined" ELSE "refine_raised"
    /\ UNCHANGED <<pipelineVars, rangeVars, unitVars, text_content,
                   style_prompt_template, chunk_size>>

ChunkNext == \E fail \in 0..(MaxTextLen + 1) : RefineText(fail)

ChunkSpec == ChunkInit /\ [][ChunkNext]_vars

EndsWith(text, tail) ==
    /\ Len(text) >= Len(tail)
    /\ SubSeq(text, Len(text) - Len(tail) + 1, Len(text)) = tail

VerbatimStyle ==
    \E i \in DOMAIN style_prompt_template :
        style_prompt_template[i] = TranscriptToken

\* the chunk list is made, is not empty and joins back to the text; one
\* reply per chunk, in chunk order, makes up the returned text
SplitAndRefinedPerChunk ==
    LET cs == split_text_into_chunks(text_content, chunk_size)
    IN /\ chunks = cs
       /\ cs # <<>>
       /\ JoinWith(cs, ParagraphBreak) = text_content
       /\ Len(refined_chunks) = Len(cs)
       /\ \A i \in DOMAIN cs :
             /\ EndsWith(llm_prompts[i], cs[i])
             /\ refined_chunks[i] = call_llm(llm_prompts[i])
       /\ refined = JoinWith(refined_chunks, ParagraphBreak)

\* C20 as stated: for any transcript longer than chunk_size words the chunk
\* list is not empty, joins back to the original text with blank lines, and
\* the refined result has one refined segment per chunk, in chunk order.
C20_ChunkingLosesNothing ==
    (fn_pc = "refined" /\ WordCount(text_content) > chunk_size)
        => SplitAndRefinedPerChunk

\* C20 amended: the same for every style whose template does not hold the
\* [full_transcript_text] placeholder; the verbatim style is sent whole in
\* one call and no chunk list is made.
C20_ChunkedStylesLoseNothing ==
    /\ (fn_pc = "refined" /\ WordCount(text_content) > chunk_size
          /\ ~VerbatimStyle) => SplitAndRefinedPerChunk
    /\ (fn_pc = "refined" /\ VerbatimStyle) =>
          /\ chunks = <<>>
          /\ Len(refined_chunks) = 1
          /\ refined = refined_chunks[1]

C20_Witness ==
    /\ fn_pc = "refined"
    /\ ~VerbatimStyle
    /\ chunk_size = 2
    /\ Len(SplitParagraphs(text_content)) = 3
    /\ Len(chunks) = 2
    /\ Len(refined_chunks) = 2
    /\ chunks[1] = <<"w", "\n", "\n", "w">>

TokenAt(template, token) ==
    CHOOSE i \in DOMAIN template : template[i] = token

\* C29: a template that holds [full_transcript_text] gets exactly one
\* LLM call whose prompt is the template with the whole transcript in the
\* token's place and [Language] left as it is, whatever the transcript
\* length and chunk_size; for every other template each prompt starts
\* with the template in which [Language] is replaced by the language, and
\* the text is split into chunks exactly when its word count exceeds
\* chunk_size.
C29_VerbatimBypassesChunking ==
    fn_pc = "refined" =>
        IF VerbatimStyle
        THEN LET i == TokenAt(style_prompt_template, TranscriptToken)
             IN  /\ Len(llm_prompts) = 1
                 /\ chunks = <<>>
                 /\ llm_prompts[1] =
                       SubSeq(style_prompt_template, 1, i - 1)
                       \o text_content
                       \o SubSeq(style_prompt_template, i + 1,
                                 Len(style_prompt_template))
        ELSE LET i == TokenAt(style_prompt_template, LanguageToken)
                 with_language ==
                       [style_prompt_template EXCEPT ![i] = "English"]
             IN  /\ \A p \in DOMAIN llm_prompts :
                       SubSeq(llm_prompts[p], 1, Len(with_language))
                          = with_language
                 /\ chunks # <<>> <=> WordCount(text_content) > chunk_size
                 /\ chunks # <<>> => Len(llm_prompts) = Len(chunks)
                 /\ chunks = <<>> => Len(llm_prompts) = 1

\* a template with both tokens and a transcript of more words than
\* chunk_size: one call, [Language] still in the prompt
C29_Witness ==
    /\ fn_pc = "refined"
    /\ VerbatimStyle
    /\ \E i \in DOMAIN style_prompt_template :
          style_prompt_template[i] = LanguageToken
    /\ WordCount(text_content) > chunk_size
    /\ Len(llm_prompts) = 1
    /\ \E i \in DOMAIN llm_prompts[1] : llm_prompts[1][i] = LanguageToken

\* the template of a chunked style with the language filled in
WithLanguage ==
    [style_prompt_template EXCEPT
        ![TokenAt(style_prompt_template, LanguageToken)] = "English"]

HasNote(prompt) == \E i \in DOMAIN prompt : prompt[i] = "[continuation]"

\* C34: when the transcript is split into n chunks, n LLM calls are made,
\* call i for chunk i; the first prompt holds no continuation note and
\* every later prompt holds it between the template and the chunk; the
\* result is the n replies joined in order by a blank line; if a call
\* raises, the calls stop there and no partial result is returned.
C34_OneCallPerChunk ==
    chunks # <<>> =>
      /\ fn_pc = "refined" =>
            /\ Len(llm_prompts) = Len(chunks)
            /\ Len(refined_chunks) = Len(chunks)
            /\ refined = JoinWith(refined_chunks, <<"\n", "\n">>)
      /\ fn_pc = "refine_raised" =>
            /\ Len(llm_prompts) <= Len(chunks)
            /\ Len(refined_chunks) = Len(llm_prompts) - 1
            /\ refined = <<"raised">>
      /\ \A i \in DOMAIN llm_prompts :
            /\ llm_prompts[i] =
                  WithLanguage
                  \o (IF i = 1 THEN <<>>
                      ELSE <<"\n", "\n", "[continuation]", "\n", "\n">>)
                  \o chunks[i]
            /\ HasNote(llm_prompts[i]) <=> i > 1
      /\ \A i \in DOMAIN refined_chunks :
            refined_chunks[i] = call_llm(llm_prompts[i])

\* three paragraphs of one word each, chunk_size 1: three calls, the
\* second and the third with the note
C34_Witness ==
    /\ fn_pc = "refined"
    /\ chunk_size = 1
    /\ Len(chunks) = 3
    /\ Len(llm_prompts) = 3
    /\ ~HasNote(llm_prompts[1])
    /\ HasNote(llm_prompts[2]) /\ HasNote(llm_prompts[3])

\* the call for the second of two chunks raised after the first reply
C34_WitnessRaised ==
    /\ fn_pc = "refine_raised"
    /\ Len(chunks) = 2
    /\ Len(llm_prompts) = 2
    /\ Len(refined_chunks) = 1
    /\ refined = <<"raised">>

\* C35: every chunk of split_text_into_chunks(text, chunk_size) has at
\* most chunk_size words, and a new chunk starts only when the next
\* paragraph would take the open chunk over chunk_size.
C35_ChunksWithinSize ==
    /\ \A i \in DOMAIN chunks : WordCount(chunks[i]) <= chunk_size
    /\ \A i \in DOMAIN chunks :
          i > 1 =>
            WordCount(chunks[i - 1])
              + WordCount(SplitParagraphs(chunks[i])[1]) > chunk_size

\* ======================================================================
\* async_refine_single_task, one refinement task step by step
\* (utils/llm_refiner.py 186-300), with the sidecar metadata and the
\* enrichment call (utils/meta_infer.py)
\* ======================================================================

\* description[:140] and tags[:5] of enhance_metadata_with_llm
DescriptionLimit == 140
TagLimit == 5

\* str.strip() on a sequence of characters
Strip(s) == RStrip(LStrip(s, Whitespace), Whitespace)

\* the sidecars save_metadata_for_transcript writes: normalize_metadata
\* always sets every field; description is stripped, tags are normalised.
\* author stands for the scalar fields other than description.
SidecarDescriptions == {<<>>, <<"o", "l", "d">>}
SidecarTags == {<<>>, <<<<"o", "l", "d">>>>}
SidecarAuthors == {"", "ann"}

Sidecars ==
    {[title |-> "Talk", source_type |-> "youtube", author |-> a,
      description |-> d, tags |-> t] :
        a \in SidecarAuthors, d \in SidecarDescriptions, t \in SidecarTags}

\* load_metadata_for_transcript: the sidecar when the file exists, the
\* minimal dict otherwise
load_metadata_for_transcript(file) ==
    IF file # {}
    THEN CHOOSE m \in file : TRUE
    ELSE [title |-> "Talk", source_type |-> "unknown"]

\* what the Responses API call of enhance_metadata_with_llm can give back
LongDescription == [i \in 1..(DescriptionLimit + 1) |-> "x"]
ManyTags == [i \in 1..(TagLimit + 1) |-> [kind |-> "str", val |-> <<"t">>]]

JsonDescriptions ==
    {[kind |-> "missing", val |-> <<>>], [kind |-> "null", val |-> <<>>],
     [kind |-> "str", val |-> <<>>],
     [kind |-> "str", val |-> <<" ", "n", "e", "w", "\n">>],
     [kind |-> "str", val |-> LongDescription]}

JsonTags ==
    {[kind |-> "missing", val |-> <<>>],
     [kind |-> "list", val |-> <<>>],
     [kind |-> "list", val |-> <<[kind |-> "str", val |-> <<" ", "a", "i">>],
                                 [kind |-> "num", val |-> <<>>]>>],
     [kind |-> "list", val |-> ManyTags]}

EnrichResponses ==
    {[kind |-> k, description |-> [kind |-> "missing", val |-> <<>>],
      tags |-> [kind |-> "missing", val |-> <<>>]] :
        k \in {"no_api_key", "api_error", "not_json"}}
    \cup {[kind |-> "json", description |-> d, tags |-> t] :
            d \in JsonDescriptions, t \in JsonTags}

\* str(data.get("description", "")): str(None) is the text None
StrOfDescription(d) ==
    CASE d.kind = "missing" -> <<>>
      [] d.kind = "null" -> <<"N", "o", "n", "e">>
      [] OTHER -> d.val

\* [t.strip() for t in (data.get("tags") or []) if isinstance(t, str)]
RECURSIVE StrippedStrTags(_)
StrippedStrTags(l) ==
    IF l = <<>> THEN <<>>
    ELSE IF Head(l).kind = "str"
         THEN <<Strip(Head(l).val)>> \o StrippedStrTags(Tail(l))
         ELSE StrippedStrTags(Tail(l))

EmptyAdd == [description |-> <<>>, tags |-> <<>>]

\* enhance_metadata_with_llm: [raised |-> TRUE] or the returned dict
enhance_metadata_with_llm(resp) ==
    CASE resp.kind \in {"no_api_key", "api_error"} ->
            [raised |-> TRUE, value |-> EmptyAdd]
      [] resp.kind = "not_json" ->
            [raised |-> FALSE, value |-> EmptyAdd]
      [] OTHER ->
            [raised |-> FALSE,
             value |->
                [description |->
                    PySlice(Strip(StrOfDescription(resp.description)),
                            0, DescriptionLimit),
                 tags |-> PySlice(StrippedStrTags(resp.tags.val),
                                  0, TagLimit)]]

\* the exception class enhance_metadata_with_llm raises
ExceptionOf(resp) ==
    IF resp.kind = "no_api_key" THEN "ValueError" ELSE "Exception"

\* the except clauses around the enrichment call
\* faulty variant: only the missing-key ValueError is handled
EnrichmentCatchesValueErrorOnly(exc) == exc = "ValueError"

EnrichmentCatches(exc) == exc \in {"ValueError", "Exception"}

\* the try/except around the enrichment call: a caught exception gives
\* the empty result
EnrichmentResult(resp) ==
    LET r == enhance_metadata_with_llm(resp)
    IN  IF r.raised THEN EmptyAdd ELSE r.value

\* Python's `not d.get(k)` for the sequence-valued fields
Missing(d, k) == k \notin DOMAIN d \/ d[k] = <<>>

\* "Only fill when missing"
\* faulty variant: the enrichment result always replaces the two fields
FillAlways(m, a) ==
    ("description" :> a.description) @@ ("tags" :> a.tags) @@ m

FillWhenMissing(m, a) ==
    LET m1 == IF Missing(m, "description")
              THEN ("description" :> a.description) @@ m
              ELSE m
    IN  IF Missing(m1, "tags") THEN ("tags" :> a.tags) @@ m1 ELSE m1

MetaEndings == {"ok", "raise"}

\* what the steps of one refinement task leave alone
metaRest == <<pipelineVars, rangeVars, chunkVars, retryVars, progressVars,
              sidecarVars, resumeVars>>

MetaInit ==
    /\ PipelineIdle
    /\ RangeIdle
    /\ ChunkIdle
    /\ RetryIdle
    /\ ProgressIdle
    /\ SidecarIdle
    /\ ResumeIdle
    /\ fn_pc = "task"
    /\ sidecar \in {{}} \cup {{m} : m \in Sidecars}
    /\ metadata_enhancement_enabled \in BOOLEAN
    /\ enrich_response = "none"
    /\ add = {}
    /\ meta = {}
    /\ steps_done = {}
    /\ task_status = "none"

TaskFails(mark) ==
    /\ fn_pc' = "returned"
    /\ task_status' = "failure"
    /\ steps_done' = steps_done \cup {mark}

\* raw_text = load_raw_transcript(task["transcript_file"])
LoadRawTranscript(e) ==
    /\ fn_pc = "task"
    /\ IF e = "ok"
       THEN /\ fn_pc' = "refine"
            /\ steps_done' = steps_done \cup {"load"}
            /\ UNCHANGED task_status
       ELSE TaskFails("load_raised")
    /\ UNCHANGED <<metaRest, sidecar,
                   metadata_enhancement_enabled, enrich_response, add, meta>>

\* refined_text = await loop.run_in_executor(None, sync_refine)
RunSyncRefine(e) ==
    /\ fn_pc = "refine"
    /\ IF e = "ok"
       THEN /\ fn_pc' = "load_meta"
            /\ steps_done' = steps_done \cup {"refine"}
            /\ UNCHANGED task_status
       ELSE TaskFails("refine_raised")
    /\ UNCHANGED <<metaRest, sidecar,
                   metadata_enhancement_enabled, enrich_response, add, meta>>

\* meta = load_metadata_for_transcript(...), then the enrichment block
\* when it is enabled
LoadAndEnhanceMetadata(resp) ==
    /\ fn_pc = "load_meta"
    /\ LET loaded == load_metadata_for_transcript(sidecar)
           escapes == /\ metadata_enhancement_enabled
                      /\ enhance_metadata_with_llm(resp).raised
                      /\ ~EnrichmentCatches(ExceptionOf(resp))
       IN  /\ IF metadata_enhancement_enabled
              THEN /\ enrich_response' = resp.kind
                   /\ add' = IF escapes THEN {} ELSE {EnrichmentResult(resp)}
                   /\ meta' = IF escapes
                              THEN {loaded}
                              ELSE {FillWhenMissing(loaded,
                                                    EnrichmentResult(resp))}
              ELSE /\ enrich_response' = "skipped"
                   /\ add' = {}
                   /\ meta' = {loaded}
           /\ IF escapes
              THEN TaskFails("enrich_raised")
              ELSE /\ fn_pc' = "attach"
                   /\ steps_done' = steps_done \cup {"load_meta"}
                   /\ UNCHANGED task_status
    /\ UNCHANGED <<metaRest, sidecar,
                   metadata_enhancement_enabled>>

\* meta["style"], meta["model_used"], the front matter and
\* save_text_to_file(final_md, task["output_file"])
AttachAndSave(e) ==
    /\ fn_pc = "attach"
    /\ meta' = {("style" :> "Summary") @@ ("model_used" :> "model-a") @@ m :
                    m \in meta}
    /\ fn_pc' = "returned"
    /\ IF e = "ok"
       THEN /\ steps_done' = steps_done \cup {"save"}
            /\ task_status' = "success"
       ELSE /\ task_status' = "failure"
            /\ steps_done' = steps_done \cup {"save_raised"}
    /\ UNCHANGED <<metaRest, sidecar,
                   metadata_enhancement_enabled, enrich_response, add>>

MetaNext ==
    \/ \E e \in MetaEndings : LoadRawTranscript(e)
    \/ \E e \in MetaEndings : RunSyncRefine(e)
    \/ \E resp \in EnrichResponses : LoadAndEnhanceMetadata(resp)
    \/ \E e \in MetaEndings : AttachAndSave(e)

MetaSpec == MetaInit /\ [][MetaNext]_vars

\* ---------------------------------------------------------------------
\* properties of the enrichment block
\* ---------------------------------------------------------------------

SidecarMeta == load_metadata_for_transcript(sidecar)
TaskMeta == CHOOSE m \in meta : TRUE
TaskAdd == CHOOSE a \in add : TRUE
EnrichedFields == {"description", "tags"}
AttachedFields == {"style", "model_used"}

\* C21: enrichment at refinement time is additive only. Once the task's
\* metadata is built, a description or tags value that was non-empty in
\* the loaded sidecar is the sidecar's value whatever the enrichment call
\* returned, a field that was empty holds the enrichment result, every
\* other loaded field is unchanged, and the only fields added are
\* description, tags and the attached style and model.
C21_EnrichmentAdditiveOnly ==
    (meta # {} /\ add # {}) =>
        /\ \A k \in EnrichedFields :
              IF Missing(SidecarMeta, k)
              THEN TaskMeta[k] = TaskAdd[k]
              ELSE TaskMeta[k] = SidecarMeta[k]
        /\ \A k \in DOMAIN SidecarMeta \ EnrichedFields :
              TaskMeta[k] = SidecarMeta[k]
        /\ DOMAIN TaskMeta \subseteq
              DOMAIN SidecarMeta \cup EnrichedFields \cup AttachedFields

\* the enrichment call returned a different, non-empty description and
\* tags for a sidecar that had both
C21_Witness ==
    /\ meta # {}
    /\ enrich_response = "json"
    /\ ~Missing(SidecarMeta, "description")
    /\ ~Missing(SidecarMeta, "tags")
    /\ TaskAdd.description # <<>>
    /\ TaskAdd.description # SidecarMeta.description
    /\ TaskAdd.tags # <<>>
    /\ TaskMeta.description = SidecarMeta.description

FailedEnrichments == {"no_api_key", "api_error", "not_json"}

\* C22: a failure of the enrichment call never fails the task. A returned
\* task has status success exactly when none of load, refine and save
\* raised, whatever the enrichment call did; and after an enrichment that
\* failed each of description and tags is the sidecar's value, or empty
\* when the sidecar had none.
C22_EnrichmentFailureNotFatal ==
    /\ fn_pc = "returned" =>
          (task_status = "success" <=>
              steps_done \cap {"load_raised", "refine_raised",
                               "save_raised"} = {})
    /\ task_status = "success" => {"load", "refine", "save"} \subseteq steps_done
    /\ (meta # {} /\ enrich_response \in FailedEnrichments) =>
          \A k \in EnrichedFields :
              TaskMeta[k] = IF Missing(SidecarMeta, k)
                            THEN <<>>
                            ELSE SidecarMeta[k]

\* the enrichment call raised an API error and the task still returned
\* success, with the description left empty
C22_Witness ==
    /\ fn_pc = "returned"
    /\ enrich_response = "api_error"
    /\ task_status = "success"
    /\ TaskMeta.description = <<>>

\* the Responses API was called (a missing key raises before the call)
EnrichmentCalled == enrich_response \in {"api_error", "not_json", "json"}

\* C36: the enrichment LLM call is made for a task only when metadata
\* enhancement is enabled and the sidecar lacks its description or its
\* tags; never when it is disabled or both fields are populated.
C36_EnrichmentOnlyWhenAbsent ==
    EnrichmentCalled =>
        /\ metadata_enhancement_enabled
        /\ \/ Missing(load_metadata_for_transcript(sidecar), "description")
           \/ Missing(load_metadata_for_transcript(sidecar), "tags")


\* ======================================================================
\* call_llm and the retry loop of the provider functions
\* (utils/call_llm.py 51-66, 107-171)
\* ======================================================================

\* max_retries: int = 3; no caller passes another value
MaxRetries == 3

\* the substrings _handle_retry looks for in str(e).lower(); an error
\* message is modelled by the set of these it contains
RateWords == {"quota", "rate"}
TransientWords == {"timeout", "temporary", "unavailable"}

ErrorMessages ==
    {{}, {"quota"}, {"rate"}, {"timeout"}, {"temporary"}, {"unavailable"},
     {"rate", "timeout"}}

\* what client.chat.completions.create can do: a reply with content, a
\* reply with no choices or empty content, or an exception
ProviderResponses ==
    {[kind |-> "text", msg |-> {}], [kind |-> "empty", msg |-> {}]}
    \cup {[kind |-> "error", msg |-> m] : m \in ErrorMessages}

\* the exception the except clause hands to _handle_retry: the provider's,
\* or Exception("Empty response from OpenAI")
RaisedMessage(resp) == IF resp.kind = "empty" THEN {} ELSE resp.msg

\* _handle_retry: re-raise, or sleep and return
\* faulty variant: every error before the last attempt is retried
HandleRetryRetriesAnyError(msg, att, max_retries) ==
    IF att >= max_retries - 1
    THEN [reraise |-> TRUE, wait |-> 0]
    ELSE [reraise |-> FALSE, wait |-> (att + 1) * 2]

_handle_retry(msg, att, max_retries) ==
    IF att >= max_retries - 1
    THEN [reraise |-> TRUE, wait |-> 0]
    ELSE IF msg \cap RateWords # {}
    THEN [reraise |-> FALSE, wait |-> (att + 1) * 5]
    ELSE IF msg \cap TransientWords # {}
    THEN [reraise |-> FALSE, wait |-> (att + 1) * 2]
    ELSE [reraise |-> TRUE, wait |-> 0]

\* provider_config as call_llm and _call_openai test it
ProviderConfigs == {"ok", "no_provider", "unknown_provider", "no_api_key"}

\* what one invocation of call_llm leaves alone
retryRest == <<pipelineVars, rangeVars, chunkVars, metaVars, progressVars,
               sidecarVars, resumeVars>>

RetryInit ==
    /\ PipelineIdle
    /\ RangeIdle
    /\ ChunkIdle
    /\ MetaIdle
    /\ RetryIdle
    /\ ProgressIdle
    /\ SidecarIdle
    /\ ResumeIdle
    /\ fn_pc = "call_llm"

\* call_llm up to the loop of the provider function: the ValueErrors for
\* a bad provider_config or a missing key, before any provider call
CallLlm(cfg) ==
    /\ fn_pc = "call_llm"
    /\ fn_pc' = IF cfg # "ok" THEN "llm_raised"
                ELSE IF MaxRetries > 0 THEN "llm_loop"
                ELSE "llm_raised"
    /\ UNCHANGED <<retryRest, retryVars>>

\* one iteration of `for attempt in range(max_retries)`
CallOpenaiAttempt(resp) ==
    /\ fn_pc = "llm_loop"
    /\ provider_log' = Append(provider_log, resp)
    /\ IF resp.kind = "text"
       THEN /\ fn_pc' = "llm_returned"
            /\ UNCHANGED <<attempt, slept>>
       ELSE LET h == _handle_retry(RaisedMessage(resp), attempt, MaxRetries)
            IN  IF h.reraise
                THEN /\ fn_pc' = "llm_raised"
                     /\ UNCHANGED <<attempt, slept>>
                ELSE /\ slept' = slept + h.wait
                     /\ attempt' = attempt + 1
                     /\ fn_pc' = IF attempt + 1 < MaxRetries
                                 THEN "llm_loop"
                                 ELSE "llm_raised"
    /\ UNCHANGED retryRest

RetryNext ==
    \/ \E cfg \in ProviderConfigs : CallLlm(cfg)
    \/ \E resp \in ProviderResponses : CallOpenaiAttempt(resp)

\* every provider call and every time.sleep returns
RetrySpec == RetryInit /\ [][RetryNext]_vars /\ WF_vars(RetryNext)

\* ---------------------------------------------------------------------
\* properties of the retry loop
\* ---------------------------------------------------------------------

TransientError(resp) ==
    /\ resp.kind = "error"
    /\ resp.msg \cap (RateWords \cup TransientWords) # {}

LastResponse == provider_log[Len(provider_log)]

RetryBounded ==
    /\ Len(provider_log) <= MaxRetries
    /\ \A i \in 1..(Len(provider_log) - 1) : TransientError(provider_log[i])
    /\ fn_pc = "llm_loop" =>
          /\ Len(provider_log) < MaxRetries
          /\ provider_log # <<>> => TransientError(LastResponse)
    /\ fn_pc = "llm_returned" =>
          /\ provider_log # <<>>
          /\ LastResponse.kind = "text"
    /\ fn_pc = "llm_raised" =>
          \/ provider_log = <<>>
          \/ /\ LastResponse.kind # "text"
             /\ \/ Len(provider_log) = MaxRetries
                \/ ~TransientError(LastResponse)

\* C23: one call_llm invocation makes at most max_retries provider
\* calls, goes on to another call only after an error whose message names
\* a rate limit, quota, timeout, temporary or unavailable condition,
\* returns the first response with content, raises when the last attempt
\* fails or an error is not transient, and always ends by returning or
\* raising.
C23_RetryBoundedAndTerminates ==
    /\ []RetryBounded
    /\ <>(fn_pc \in {"llm_returned", "llm_raised"})

\* two transient errors, the waits of 5 and 4 seconds, then a reply on the
\* third and last attempt
C23_Witness ==
    /\ fn_pc = "llm_returned"
    /\ Len(provider_log) = MaxRetries
    /\ slept = 9


\* ======================================================================
\* the batch CSV: parse_bodhiflow_csv (utils/csv_batch.py 27-106) as
\* _initialize_shared_memory calls it (core/pocketflow_runner.py 99-115)
\* ======================================================================

\* a CSV file: whether its bytes decode as UTF-8, the lower-cased header,
\* and per row the input cell and the names in the styles cell
CsvRow(input, styles) == [input |-> input, styles |-> styles]

UnknownStyle == <<"X">>

CsvFiles ==
    {[utf8 |-> TRUE, fieldnames |-> {"input", "styles"},
      rows |-> <<CsvRow("u", <<StyleQA>>), CsvRow("v", <<>>)>>],
     [utf8 |-> TRUE, fieldnames |-> {},
      rows |-> <<>>],
     [utf8 |-> TRUE, fieldnames |-> {"url", "styles"},
      rows |-> <<CsvRow("", <<>>)>>],
     [utf8 |-> TRUE, fieldnames |-> {"input", "styles"},
      rows |-> <<CsvRow("u", <<>>), CsvRow("", <<>>)>>],
     [utf8 |-> TRUE, fieldnames |-> {"input", "styles"},
      rows |-> <<CsvRow("u", <<StyleQA, UnknownStyle>>)>>],
     [utf8 |-> FALSE, fieldnames |-> {"input", "styles"},
      rows |-> <<CsvRow("u", <<>>)>>]}

RowRaises(row) ==
    \/ row.input = ""
    \/ \E i \in DOMAIN row.styles : row.styles[i] \notin text_refinement_prompts

\* parse_bodhiflow_csv: [raised |-> TRUE] for a ValueError, the jobs
\* otherwise
parse_bodhiflow_csv(file) ==
    IF ~file.utf8 THEN [raised |-> TRUE, jobs |-> <<>>]
    ELSE IF file.fieldnames = {} THEN [raised |-> FALSE, jobs |-> <<>>]
    ELSE IF "input" \notin file.fieldnames THEN [raised |-> TRUE, jobs |-> <<>>]
    ELSE IF \E r \in DOMAIN file.rows : RowRaises(file.rows[r])
    THEN [raised |-> TRUE, jobs |-> <<>>]
    ELSE [raised |-> FALSE,
          jobs |-> [r \in DOMAIN file.rows |->
                      [styles |-> file.rows[r].styles, language |-> "",
                       output_subdir |-> ""]]]

\* csv_jobs of _initialize_shared_memory: the except clause logs the
\* ValueError and leaves the empty list
InitializedCsvJobs(path) ==
    IF path = {} THEN <<>>
    ELSE LET parsed == parse_bodhiflow_csv(CHOOSE f \in path : TRUE)
         IN  IF parsed.raised THEN <<>> ELSE parsed.jobs

\* a batch run with one worker: the file at csv_path is the input
CsvInit ==
    /\ RunSetup
    /\ run_phase_2
    /\ requested_workers = 1 /\ asr_cap = {}
    /\ max_workers_async = 1
    /\ phase2_max_concurrency = {1}
    /\ phase2_skip_existing = FALSE
    /\ csv_file \in {{f} : f \in CsvFiles}
    /\ csv_jobs = InitializedCsvJobs(csv_file)
    /\ output_files = <<>>

CsvSpec == CsvInit /\ [][Next]_vars

Malformed(path) ==
    path # {} /\ parse_bodhiflow_csv(CHOOSE f \in path : TRUE).raised

\* C24: a malformed batch file (no input column, an empty input cell, an
\* unknown style name, bytes that are not UTF-8) is fatal: the run ends in
\* the error state before any stage of the flow has begun.
C24_MalformedCsvIsFatal ==
    (Malformed(csv_file) /\ runner_pc # "init") =>
        /\ runner_pc = "error"
        /\ trace = <<>>


\* ======================================================================
\* what PocketFlowRunner.run emits when it ends
\* (core/pocketflow_runner.py 62-80)
\* ======================================================================

\* the signal run() emits after flow.run returned or raised; stop() cannot
\* be requested once the run has ended, so stop_requested is the flag run()
\* read
RunEmits ==
    IF runner_pc = "done"
    THEN IF ~stop_requested
         THEN {"flow_complete"}
         ELSE {"cancelled_warning"}
    ELSE IF runner_pc = "error"
    THEN IF ~stop_requested
         THEN {"error_status"}
         ELSE {}
    ELSE {}

RunEnded == runner_pc \in {"done", "error"}

\* C25: a run that ends emits exactly one of flow_complete, the
\* cancellation warning and an error status; after a stop request it is
\* the cancellation warning and never flow_complete; flow_complete is
\* emitted exactly when the flow ran to its end with no stop request and
\* no exception.
C25_OneTerminalSignal ==
    RunEnded =>
        /\ Cardinality(RunEmits) = 1
        /\ stop_requested => RunEmits = {"cancelled_warning"}
        /\ "flow_complete" \in RunEmits <=>
              (runner_pc = "done" /\ ~stop_requested)


\* ======================================================================
\* the skip-existing option (gui/main_window.py 409-414, 1203;
\* core/pocketflow_runner.py 142) in a phase-2-only run
\* ======================================================================

\* a phase-2-only run over an output directory in which every output
\* file, or none, is left from an earlier run; the option is on or off
SkipInit ==
    /\ RunSetup
    /\ ~run_phase_1 /\ run_phase_2
    /\ requested_workers = 1 /\ asr_cap = {}
    /\ max_workers_async \in 1..MaxAsync
    /\ phase2_max_concurrency = {max_workers_async}
    /\ phase2_skip_existing \in BOOLEAN
    /\ csv_file = {}
    /\ csv_jobs = <<>>
    /\ output_files \in {[k \in Titles \X Styles |-> "existing"],
                         [k \in Titles \X Styles |-> "absent"]}

SkipSpec == SkipInit /\ [][RefineNext]_vars

CalledFor(k, calls) ==
    \E t \in calls : t \in DOMAIN refinement_tasks /\ TaskKey(t) = k

\* C26: with phase2_skip_existing on, a task whose output file exists is
\* skipped: no LLM call is started for it and the file is left as it was.
C26_ExistingOutputSkipped ==
    [][phase2_skip_existing =>
          \A k \in DOMAIN output_files :
              output_files[k] = "existing" =>
                  /\ output_files'[k] = "existing"
                  /\ ~CalledFor(k, llm_calls')]_vars


\* ======================================================================
\* max_workers_async as the GUI derives it from the phase-2 model
\* (gui/main_window.py 1216; utils/models_config.py 90-104)
\* ======================================================================

\* the fallback of `get_phase2_model_max_concurrency(...) or 10`
DefaultWorkersAsync == 10

\* get_phase2_model_max_concurrency: None for a model without the key
get_phase2_model_max_concurrency(declared) == declared

\* `x or 10`: None and 0 give the fallback
\* faulty variant: the declared limit is not looked up
WorkersAsyncIgnoresModel(declared) == DefaultWorkersAsync

WorkersAsyncParam(declared) ==
    LET x == get_phase2_model_max_concurrency(declared)
    IN  IF x = {} \/ x = {0}
        THEN DefaultWorkersAsync
        ELSE CHOOSE c \in x : TRUE

\* a phase-2-only run started from the GUI: the selected model declares a
\* positive max_concurrency or none
CapInit ==
    /\ RunSetup
    /\ ~run_phase_1 /\ run_phase_2
    /\ requested_workers = 1 /\ asr_cap = {}
    /\ phase2_max_concurrency \in {{}} \cup {{c} : c \in 1..MaxAsync}
    /\ max_workers_async = WorkersAsyncParam(phase2_max_concurrency)
    /\ phase2_skip_existing = FALSE
    /\ csv_file = {}
    /\ csv_jobs = <<>>
    /\ output_files = <<>>

CapSpec == CapInit /\ [][RefineNext]_vars

MaxUnits == 50      \* most jobs or tasks one coordinator is given

\* Python floats: a positive double is m * 2^exp with m a string of
\* MantissaBits bits, most significant first, the first of them 1
\* a double has 53 significant bits
MantissaBits == 53

RECURSIVE NormShift(_, _)
NormShift(c, t) == IF c >= t THEN 0 ELSE 1 + NormShift(2 * c, t)

RECURSIVE Pow2(_)
Pow2(n) == IF n = 0 THEN 1 ELSE 2 * Pow2(n - 1)

\* 2^n mod t by repeated squaring
RECURSIVE Pow2Mod(_, _)
Pow2Mod(n, t) ==
    IF n = 0 THEN 1 % t
    ELSE LET h == Pow2Mod(n \div 2, t)
             sq == (h * h) % t
         IN  IF n % 2 = 0 THEN sq ELSE (2 * sq) % t

\* long division: the remainder after i more bits, and the n bits
DivRem(r, t, i) == (r * Pow2Mod(i, t)) % t

DivBits(r, t, n) ==
    [bits |-> [i \in 1..n |-> IF 2 * DivRem(r, t, i - 1) >= t THEN 1 ELSE 0],
     rem |-> DivRem(r, t, n)]

Zeros(n) == [i \in 1..n |-> 0]

StripZeros(bits) ==
    IF \A i \in DOMAIN bits : bits[i] = 0 THEN <<>>
    ELSE LET first == CHOOSE i \in DOMAIN bits :
                         bits[i] = 1 /\ \A j \in 1..(i - 1) : bits[j] = 0
         IN  SubSeq(bits, first, Len(bits))

PadLeft(bits, n) == Zeros(n - Len(bits)) \o bits

\* binary addition of two bit strings, most significant bit first
AddBits(a, b) ==
    LET n == (IF Len(a) > Len(b) THEN Len(a) ELSE Len(b)) + 1
        x == PadLeft(a, n)
        y == PadLeft(b, n)
        \* the carry into position i: a lower position generates one and
        \* every position between propagates it
        carry(i) ==
            IF \E j \in (i + 1)..n :
                  /\ x[j] + y[j] = 2
                  /\ \A k \in (i + 1)..(j - 1) : x[k] + y[k] >= 1
            THEN 1 ELSE 0
    IN  StripZeros([i \in 1..n |-> (x[i] + y[i] + carry(i)) % 2])

\* round a bit string to MantissaBits significant bits, ties to even;
\* sticky tells whether bits beyond the string are non-zero
RoundBits(bits, sticky) ==
    IF Len(bits) <= MantissaBits
    THEN [m |-> bits \o Zeros(MantissaBits - Len(bits)),
          exp |-> Len(bits) - MantissaBits]
    ELSE LET keep == SubSeq(bits, 1, MantissaBits)
             rest == SubSeq(bits, MantissaBits + 1, Len(bits))
             more == sticky \/ \E i \in 2..Len(rest) : rest[i] = 1
             up == rest[1] = 1 /\ (more \/ keep[MantissaBits] = 1)
             inc == IF up THEN AddBits(keep, <<1>>) ELSE keep
         IN  IF Len(inc) > MantissaBits
             THEN [m |-> SubSeq(inc, 1, MantissaBits), exp |-> Len(rest) + 1]
             ELSE [m |-> inc, exp |-> Len(rest)]

\* c / t for 0 < c <= t, correctly rounded
FloatDiv(c, t) ==
    LET k == NormShift(c, t)
        d == DivBits(c * Pow2(k) - t, t, MantissaBits)
        r == RoundBits(<<1>> \o d.bits, d.rem # 0)
    IN  [m |-> r.m, exp |-> r.exp - k - MantissaBits]

\* x * 100
FloatTimes100(x) ==
    LET p == AddBits(AddBits(x.m \o Zeros(6), x.m \o Zeros(5)), x.m \o Zeros(2))
        r == RoundBits(p, FALSE)
    IN  [m |-> r.m, exp |-> x.exp + r.exp]

RECURSIVE BitsToInt(_)
BitsToInt(bits) ==
    IF bits = <<>> THEN 0
    ELSE 2 * BitsToInt(SubSeq(bits, 1, Len(bits) - 1)) + bits[Len(bits)]

\* int(x) for x >= 0 below 2^31
FloatToInt(x) ==
    LET n == MantissaBits + x.exp
    IN  IF n <= 0 THEN 0 ELSE BitsToInt(SubSeq(x.m, 1, n))

\* progress_percent = int((completed / total) * 100)
progress_percent(c, t) == FloatToInt(FloatTimes100(FloatDiv(c, t)))

progressRest == <<pipelineVars, rangeVars, chunkVars, metaVars, retryVars,
                  sidecarVars, resumeVars>>

\* a coordinator's exec at the start of its loop, with at least one unit
ProgressInit ==
    /\ PipelineIdle
    /\ RangeIdle
    /\ ChunkIdle
    /\ MetaIdle
    /\ RetryIdle
    /\ SidecarIdle
    /\ ResumeIdle
    /\ fn_pc = "progress"
    /\ progress_coordinator \in {"acquisition", "refinement"}
    /\ progress_total \in 1..MaxUnits
    /\ progress_completed = 0
    /\ progress_reported = <<>>
    /\ progress_cancelled = FALSE
    /\ progress_ended = FALSE

\* a future is handled by the as_completed loop, or a task leaves
\* async_refine_single_task: completed += 1 and progress_callback
UnitFinished ==
    /\ ~progress_ended
    /\ progress_completed + (IF progress_cancelled THEN 1 ELSE 0)
          < progress_total
    /\ progress_completed' = progress_completed + 1
    /\ progress_reported' =
          Append(progress_reported,
                 progress_percent(progress_completed + 1, progress_total))
    /\ UNCHANGED <<progressRest, fn_pc, progress_coordinator, progress_total,
                   progress_cancelled, progress_ended>>

\* the acquisition loop sees the stop flag and breaks
BreakOnStop ==
    /\ progress_coordinator = "acquisition"
    /\ ~progress_ended
    /\ progress_completed < progress_total
    /\ progress_cancelled' = TRUE
    /\ progress_ended' = TRUE
    /\ UNCHANGED <<progressRest, fn_pc, progress_coordinator, progress_total,
                   progress_completed, progress_reported>>

\* refinement tasks see the stop flag and return "cancelled": they neither
\* count nor report
UnitsCancelled ==
    /\ progress_coordinator = "refinement"
    /\ ~progress_ended /\ ~progress_cancelled
    /\ progress_completed < progress_total
    /\ progress_cancelled' = TRUE
    /\ UNCHANGED <<progressRest, fn_pc, progress_coordinator, progress_total,
                   progress_completed, progress_reported, progress_ended>>

\* as_completed is exhausted, or gather returns
ProgressEnds ==
    /\ ~progress_ended
    /\ progress_completed + (IF progress_cancelled THEN 1 ELSE 0)
          >= progress_total
    /\ progress_ended' = TRUE
    /\ UNCHANGED <<progressRest, fn_pc, progress_coordinator, progress_total,
                   progress_completed, progress_reported, progress_cancelled>>

ProgressNext ==
    \/ UnitFinished
    \/ BreakOnStop
    \/ UnitsCancelled
    \/ ProgressEnds

ProgressSpec == ProgressInit /\ [][ProgressNext]_vars

\* C28: the counter grows by one per finished unit, each reported value
\* is floor(100 * completed / total), the reported values never decrease
\* and never exceed 100, and the last one is 100 when every unit finished
\* without cancellation.
C28_ProgressIsFloorPercent ==
    /\ Len(progress_reported) = progress_completed
    /\ \A i \in DOMAIN progress_reported :
          /\ progress_reported[i] = (100 * i) \div progress_total
          /\ progress_reported[i] <= 100
          /\ i > 1 => progress_reported[i - 1] <= progress_reported[i]
    /\ (progress_ended /\ ~progress_cancelled) =>
          progress_reported[Len(progress_reported)] = 100

(* ------------------ cancellation across both phases -------------------- *)
\* the stop was requested while no refinement coroutine existed: before or
\* during acquisition, or at the latest before AsyncRefinement's exec
\* handed its tasks to asyncio.gather
StoppedBeforeRefinementTasks == stop_requested /\ tpc_at_stop = <<>>

\* C30: in the full topology the stop flag, once set, stays set for the
\* rest of the run, and when it was set before or during acquisition no
\* refinement LLM call is started afterwards.
C30_CancellationPropagates ==
    [][(topology = "full" /\ stop_requested) =>
          /\ stop_requested'
          /\ StoppedBeforeRefinementTasks => llm_calls' \subseteq llm_calls]_vars

\* the stop arrived while the acquisition pool was running, the flow went
\* on to AsyncRefinement with tasks to refine, and exec returned without
\* an LLM call
C30_Witness ==
    /\ topology = "full"
    /\ stop_requested
    /\ stop_acq_pc \in {"start", "pool", "shutdown"}
    /\ curr = "AsyncRefinement" /\ step = "post"
    /\ refinement_tasks # <<>>
    /\ llm_calls = {}

(* ================================================================== *)
(* One source from save_raw_transcript and the sidecar written at      *)
(* acquisition to the sidecar looked up for its refinement tasks,      *)
(* checked on its own: the title is the input.                         *)
(* ================================================================== *)
MetaExtension == <<".", "m", "e", "t", "a">>

\* the path both save_metadata_for_transcript and
\* load_metadata_for_transcript build: f"{safe_title}.meta.json"
MetaFileStem(video_title) == clean_filename(video_title) \o MetaExtension

\* a title of SafeTitleLimit + 1 characters with a dot at SafeTitleLimit
LongDottedTitle ==
    [i \in 1..(SafeTitleLimit + 1) |-> IF i = SafeTitleLimit THEN "." ELSE "a"]

\* titles the input handlers can return
SidecarTitles ==
    UNION {[1..n -> {"a", ".", " ", ":"}] : n \in 0..MaxTitleLen}
      \cup {<<"a">> \o RawTranscriptSuffix, <<"C", "O", "N">>, LongDottedTitle}

sidecarRest == <<pipelineVars, rangeVars, chunkVars, metaVars, retryVars,
                 progressVars, resumeVars>>

SidecarInit ==
    /\ PipelineIdle
    /\ RangeIdle
    /\ ChunkIdle
    /\ MetaIdle
    /\ RetryIdle
    /\ ProgressIdle
    /\ ResumeIdle
    /\ fn_pc = "title"
    /\ source_title \in SidecarTitles
    /\ saved_transcript_stem = <<>>
    /\ saved_meta_stem = <<>>
    /\ task_video_title = <<>>
    /\ loaded_meta_stem = <<>>

\* process_single_video_acquisition with raw text: the transcript and the
\* sidecar are written under the title of the job
SaveTranscriptAndSidecar ==
    /\ fn_pc = "title"
    /\ saved_transcript_stem' = save_raw_transcript(source_title)
    /\ saved_meta_stem' = MetaFileStem(source_title)
    /\ fn_pc' = "saved"
    /\ UNCHANGED <<sidecarRest, source_title, task_video_title,
                   loaded_meta_stem>>

\* create_refinement_tasks: video_title from the stem of the transcript file
DeriveTaskTitle ==
    /\ fn_pc = "saved"
    /\ task_video_title' = VideoTitleOf(saved_transcript_stem)
    /\ fn_pc' = "tasked"
    /\ UNCHANGED <<sidecarRest, source_title, saved_transcript_stem,
                   saved_meta_stem, loaded_meta_stem>>

\* async_refine_single_task: load_metadata_for_transcript(task["video_title"])
LookUpSidecar ==
    /\ fn_pc = "tasked"
    /\ loaded_meta_stem' = MetaFileStem(task_video_title)
    /\ fn_pc' = "looked_up"
    /\ UNCHANGED <<sidecarRest, source_title, saved_transcript_stem,
                   saved_meta_stem, task_video_title>>

SidecarNext ==
    \/ SaveTranscriptAndSidecar
    \/ DeriveTaskTitle
    \/ LookUpSidecar

SidecarSpec == SidecarInit /\ [][SidecarNext]_vars

\* C37: the sidecar looked up for a task is the one saved for its source:
\* the title derived from the transcript file name is the safe title used
\* when saving, and clean_filename applied to a safe title returns it
\* unchanged, for every title.
C37_SidecarFoundAgain ==
    /\ fn_pc \in {"tasked", "looked_up"} =>
          task_video_title = clean_filename(source_title)
    /\ fn_pc = "looked_up" => loaded_meta_stem = saved_meta_stem
    /\ clean_filename(clean_filename(source_title))
          = clean_filename(source_title)

(* ================================================================== *)
(* A run with phase 1 followed by a resume-mode run over the same      *)
(* input and the same intermediate_dir, up to the end of acquisition.  *)
(* ================================================================== *)
\* the first run: resume off, nothing on disk, a single (non-CSV) input
ResumeInit ==
    /\ run_phase_1 = TRUE
    /\ run_phase_2 = TRUE
    /\ resume_mode = FALSE
    /\ selected_styles = <<>>
    /\ phase2_skip_existing = FALSE
    /\ csv_file = {}
    /\ csv_jobs = <<>>
    /\ expanded \in Expansions(0)
    /\ intermediate_dir = {}
    /\ build_pc = "expand"
    /\ requested_workers = 1 /\ asr_cap = {}
    /\ max_workers_processes = 1 /\ max_workers_async = 1
    /\ phase2_max_concurrency = {1}
    /\ stop_requested = FALSE
    /\ runner_pc = "flow"
    /\ topology = "none" /\ curr = "none" /\ step = "prep" /\ trace = <<>>
    /\ prep_res = {} /\ exec_res = <<>>
    /\ video_sources_queue = <<>>
    /\ phase_1_results = <<>>
    /\ raw_transcript_files = <<>>
    /\ transcript_file_to_job_id = <<>>
    /\ refinement_tasks = <<>>
    /\ phase_2_results = <<>>
    /\ output_files = <<>>
    /\ acq_pc = "idle" /\ fstate = <<>> /\ outcome = <<>> /\ yielded = {}
    /\ results = <<>> /\ completed = 0
    /\ stop_acq_pc = "never" /\ fstate_at_stop = <<>> /\ began_after_stop = {}
    /\ ref_pc = "idle" /\ tpc = <<>> /\ tresult = <<>>
    /\ sem_value = 0 /\ sem_waiters = <<>> /\ tpc_at_stop = <<>>
    /\ llm_calls = {} /\ raised = {}
    /\ fn_pc = "off"
    /\ RangeIdle /\ ChunkIdle /\ MetaIdle /\ RetryIdle /\ ProgressIdle
    /\ SidecarIdle
    /\ run_no = 1
    /\ first_results = <<>>
    /\ first_queue = <<>>

\* the user starts the same input again with resume mode on: a new runner
\* and a new shared memory, the files of intermediate_dir are still there
ResumeRerun ==
    /\ run_no = 1
    /\ build_pc = "tasks"
    /\ run_no' = 2
    /\ first_results' = results
    /\ first_queue' = video_sources_queue
    /\ resume_mode' = TRUE
    /\ build_pc' = "expand"
    /\ video_sources_queue' = <<>>
    /\ phase_1_results' = <<>>
    /\ raw_transcript_files' = <<>>
    /\ transcript_file_to_job_id' = <<>>
    /\ results' = <<>>
    /\ yielded' = {}
    /\ UNCHANGED <<paramVars, stop_requested, runner_pc, flowVars,
                   refinement_tasks, phase_2_results, acq_pc, fstate, outcome,
                   completed, stop_acq_pc, fstate_at_stop, began_after_stop,
                   refVars, csv_file, csv_jobs, expanded, intermediate_dir,
                   fn_pc, rangeVars, chunkVars, metaVars, retryVars,
                   progressVars, sidecarVars>>

ResumeNext ==
    \/ BuildExpand
    \/ \E ok \in BOOLEAN : BuildAcquire(ok)
    \/ BuildAcquisitionPost
    \/ ResumeRerun

ResumeSpec == ResumeInit /\ [][ResumeNext]_vars

\* the input items whose title no other item of the input carries
TitledOnce(i) ==
    \A k \in DOMAIN expanded :
        expanded[k].original_title = expanded[i].original_title => k = i

FirstStatus(i) ==
    DictGet(first_results, expanded[i].original_title,
            [status |-> "absent"]).status

Enumerated(i) ==
    \E q \in DOMAIN video_sources_queue : video_sources_queue[q] = expanded[i]

\* C38: in the resume run a source the first run acquired and saved is
\* left out of video_sources_queue and is not acquired again, and a source
\* whose first acquisition failed is enumerated again.
C38_ResumeAcrossRuns ==
    (run_no = 2 /\ build_pc \in {"acquire", "tasks"}) =>
        \A i \in DOMAIN expanded :
            TitledOnce(i) =>
              /\ FirstStatus(i) = "success" =>
                    /\ ~Enumerated(i)
                    /\ expanded[i].original_title \notin DictKeys(results)
              /\ FirstStatus(i) = "failure" => Enumerated(i)

(* --------------------- writers of the shared context ------------------- *)
\* the stage whose post is running
InPostOf(node) == runner_pc = "flow" /\ curr = node /\ step = "post"

\* the stages that ran (their prep began) so far
StagesRun == {trace[i] : i \in DOMAIN trace}

\* C31: the shared context changes only in a stage's post, each of
\* video_sources_queue, phase_1_results, refinement_tasks and
\* phase_2_results changes only in the post of its one writer stage, and
\* refinement_tasks stays as RefinementTaskCreator's post left it.
C31_SharedWrittenOnlyInPost ==
    [][/\ sharedVars' # sharedVars => runner_pc = "flow" /\ step = "post"
       /\ video_sources_queue' # video_sources_queue =>
             InPostOf("InputExpansion")
       /\ phase_1_results' # phase_1_results =>
             InPostOf("ParallelAcquisition")
       /\ refinement_tasks' # refinement_tasks =>
             InPostOf("RefinementTaskCreator")
       /\ phase_2_results' # phase_2_results =>
             InPostOf("AsyncRefinement")
       /\ ("RefinementTaskCreator" \in StagesRun
              /\ curr # "RefinementTaskCreator") =>
             refinement_tasks' = refinement_tasks]_vars

\* a full run ended after each of the four collections was written
C31_Witness ==
    /\ runner_pc = "done"
    /\ topology = "full"
    /\ video_sources_queue # <<>>
    /\ \E t \in Titles : phase_1_results[t] # NoResult
    /\ refinement_tasks # <<>>
    /\ \E k \in Titles \X Styles : phase_2_results[k] # "absent"

(* ------------------------ empty queue, empty tasks ---------------------- *)
\* the coordinators run only on non-empty work
CoordinatorsHaveWork ==
    /\ (runner_pc = "flow" /\ curr = "ParallelAcquisition") =>
          video_sources_queue # <<>>
    /\ (runner_pc = "flow" /\ curr = "AsyncRefinement") =>
          refinement_tasks # <<>>

\* an empty result is routed along its edge when post returns (step goes
\* back to "prep") and the builder's exec does not raise on empty input
EmptyTakesEdge ==
    /\ (InPostOf("InputExpansion") /\ exec_res = <<>>) =>
          /\ runner_pc' # "error"
          /\ step' = "prep" =>
                curr' = Successor(topology, "InputExpansion",
                                  "phase_1_complete_no_input")
    /\ (runner_pc = "flow" /\ curr = "RefinementTaskCreator" /\ step = "exec"
          /\ (prep_res = {} \/ selected_styles = <<>>)) =>
          /\ runner_pc' # "error"
          /\ step' = "post" => exec_res' = <<>>
    /\ (InPostOf("RefinementTaskCreator") /\ exec_res = <<>>) =>
          /\ runner_pc' # "error"
          /\ step' = "prep" =>
                curr' = Successor(topology, "RefinementTaskCreator",
                                  "phase_2_complete_no_tasks")

\* C32: in every topology ParallelAcquisition runs only with a non-empty
\* video_sources_queue and AsyncRefinement only with non-empty
\* refinement_tasks; an empty queue takes the phase_1_complete_no_input
\* edge, an empty task list (no transcripts or no styles) takes the
\* phase_2_complete_no_tasks edge, and neither raises.
C32_EmptyWorkTakesEdge == []CoordinatorsHaveWork /\ [][EmptyTakesEdge]_vars

\* a full run whose enumerator found nothing went on to the task builder,
\* which built nothing, and ended without an error
C32_Witness ==
    /\ topology = "full"
    /\ runner_pc = "done"
    /\ video_sources_queue = <<>>
    /\ refinement_tasks = <<>>
    /\ StagesRun = {"InputExpansion", "RefinementTaskCreator",
                    "TempFileCleanup", "FlowCompletion"}

\* styles were not selected although transcripts exist: no-tasks edge
C32_WitnessNoStyles ==
    /\ runner_pc = "done"
    /\ prep_res # {}
    /\ selected_styles = <<>>
    /\ refinement_tasks = <<>>
    /\ "RefinementTaskCreator" \in StagesRun
    /\ "AsyncRefinement" \notin StagesRun

(* ----------------------- every label has an edge ------------------------ *)
Topologies == {"full", "phase1", "phase2"}

\* the nodes a flow can reach from its start node in at most k edges
RECURSIVE NodesWithin(_, _)
NodesWithin(topo, k) ==
    IF k = 0 THEN {StartNode(topo)}
    ELSE LET S == NodesWithin(topo, k - 1)
         IN S \cup ({Successor(topo, n, a) :
                        n \in S, a \in UNION {PostLabels(m) : m \in S}}
                    \cap Stages)

NodesOf(topo) == NodesWithin(topo, Cardinality(Stages))

\* every label a node of the flow can return is registered, but for the
\* label of FlowCompletion
AllLabelsWired ==
    \A topo \in Topologies :
      \A n \in NodesOf(topo) :
        \A a \in PostLabels(n) :
          IF n = "FlowCompletion"
          THEN Successor(topo, n, a) = "none"
          ELSE Successor(topo, n, a) \in Stages

\* flow.run returns for lack of a successor only after FlowCompletion
EndsAtCompletion ==
    (runner_pc = "flow" /\ runner_pc' = "done") => curr = "FlowCompletion"

\* C33: in each of the three topologies every label a stage of the
\* topology can return has a registered successor, except the label of
\* FlowCompletion, which ends the flow; no run ends at another stage for
\* lack of a transition.
C33_EveryLabelHasTransition == []AllLabelsWired /\ [][EndsAtCompletion]_vars

\* a phase-1 run with nothing to acquire followed the no-input edge to
\* FlowCompletion and ended there
C33_Witness ==
    /\ topology = "phase1"
    /\ runner_pc = "done"
    /\ trace = <<"InputExpansion", "FlowCompletion">>

(* ------------------- acquisition jobs and the cleanup ------------------- *)
\* jobs a worker process is running or is about to run
JobsRunning == {j \in DOMAIN fstate : fstate[j] \in {"QUEUED", "EXECUTING"}}

\* position of a stage in the trace, 0 if it did not run
TracePos(node) ==
    IF node \in StagesRun
    THEN CHOOSE i \in DOMAIN trace : trace[i] = node
    ELSE 0

\* C39: an acquisition job runs only while ParallelAcquisition's exec is
\* running, with or without a stop request, so exec has not returned and
\* TempFileCleanup is not running while a job executes; and when
\* ParallelAcquisition ran, TempFileCleanup runs before FlowCompletion.
C39_NoJobOutlivesAcquisition ==
    /\ JobsRunning # {} =>
          /\ runner_pc = "flow"
          /\ curr = "ParallelAcquisition"
          /\ step = "exec"
    /\ ("ParallelAcquisition" \in StagesRun
          /\ "FlowCompletion" \in StagesRun) =>
          /\ TracePos("TempFileCleanup") > TracePos("ParallelAcquisition")
          /\ TracePos("TempFileCleanup") < TracePos("FlowCompletion")

\* the stop came while a job was executing; exec returned only after the
\* job had finished
C39_Witness ==
    /\ curr = "ParallelAcquisition" /\ step = "post"
    /\ stop_requested
    /\ stop_acq_pc = "pool"
    /\ \E j \in DOMAIN fstate :
          /\ fstate_at_stop[j] = "EXECUTING"
          /\ fstate[j] = "FINISHED"
          /\ j \notin yielded

\* a phase-1 run with acquisition ended after the cleanup
C39_WitnessCleanup ==
    /\ runner_pc = "done"
    /\ trace = <<"InputExpansion", "ParallelAcquisition",
                 "TempFileCleanup", "FlowCompletion">>

====
